---- MODULE Spec2Model ----
(***************************************************************************)
(* Model of the StorageGRID provider's management client                    *)
(* (internal/utils: bucket list cache, bucket create/delete with timeout    *)
(* reconciliation, temporary S3 credential manager) and of the provider     *)
(* process life cycle of main.go (signal handler and deferred cleanup); of   *)
(* the JSON codecs, the object lock and lifecycle configuration calls, and   *)
(* of callbacks that run concurrently on the one client.                     *)
(*                                                                          *)
(* Time is counted in minutes.  Bucket names are 1..NumBuckets, temporary   *)
(* access key ids are 1..MaxKeys in order of creation on the server.        *)
(* Error values carry the substrings ("marks") that the code looks for in   *)
(* err.Error(): wrapping with fmt.Errorf("...: %w", err) keeps them.        *)
(***************************************************************************)
EXTENDS FiniteSets, Integers, Sequences, TLC

\* ------------------------------------------------------------------ bounds
NumBuckets == 2
MaxTime == 6
MaxKeys == 2
MaxDays == 3
MaxLen == 2
NumGoroutines == 2

Buckets == 1..NumBuckets

\* ------------------------------------------------------- program constants
\* const cacheTimeout = 5 * time.Minute
cacheTimeout == 5
\* time.Time{} : the zero time, older than any cache timeout
ZeroTime == -1
\* nil *minio.Client / nil *s3AccessKey
Nil == 0

VARIABLES
    \* Client fields
    Token, bucketCache, bucketCacheTime, s3Client, s3AccessKey,
    \* management API server
    serverBuckets, validKeys, issuedKeys,
    \* environment
    now, endpointValid,
    \* provider process (main.go)
    mainPc, sigPc, sigPending, exited, cleanupBy,
    \* goroutines running resource callbacks on the one client, and the
    \* buckets whose CreateS3Bucket call has returned success
    goroutines, createdOk,
    \* observation of the last completed call and of the run so far
    last, populatedAt, everHeld, runCreated

clientVars == <<Token, bucketCache, bucketCacheTime, s3Client, s3AccessKey>>
serverVars == <<serverBuckets, validKeys, issuedKeys>>
mainVars == <<mainPc, sigPc, sigPending, exited, cleanupBy>>
goVars == <<goroutines, createdOk>>
procVars == <<mainVars, goVars>>
histVars == <<last, populatedAt, everHeld, runCreated>>
vars == <<clientVars, serverVars, now, endpointValid, procVars, histVars>>

\* ------------------------------------------------------------------ errors
NoErr == [kind |-> "nil", netTimeout |-> FALSE, marks |-> {}, wrap |-> <<>>]

\* http.Client.Timeout hit: *url.Error, Timeout() = true, message
\* "... context deadline exceeded (Client.Timeout exceeded while awaiting headers)"
ErrClientTimeout ==
    [kind |-> "transport", netTimeout |-> TRUE,
     marks |-> {"deadline exceeded", "Client.Timeout exceeded"}, wrap |-> <<>>]
\* "status: 500, body: ..."
ErrStatus500 ==
    [kind |-> "status", netTimeout |-> FALSE, marks |-> {}, wrap |-> <<>>]
\* "status: 404, body: 404 page not found"
ErrStatus404 ==
    [kind |-> "status", netTimeout |-> FALSE, marks |-> {"not found"}, wrap |-> <<>>]
\* json.Unmarshal failure on a 2xx body
ErrDecode ==
    [kind |-> "decode", netTimeout |-> FALSE, marks |-> {}, wrap |-> <<>>]
\* response decoded but Status != "success"
ErrApiStatus ==
    [kind |-> "apistatus", netTimeout |-> FALSE, marks |-> {}, wrap |-> <<>>]
\* fmt.Errorf("bucket %s not found", bucketName)
ErrBucketNotFound ==
    [kind |-> "bucketNotFound", netTimeout |-> FALSE, marks |-> {"not found"}, wrap |-> <<>>]
\* url.Parse / minio.New rejecting the endpoint
ErrEndpoint ==
    [kind |-> "endpoint", netTimeout |-> FALSE, marks |-> {}, wrap |-> <<>>]
\* S3 errors returned by the operation closure
ErrS3Expired ==
    [kind |-> "s3", netTimeout |-> FALSE, marks |-> {"ExpiredToken"}, wrap |-> <<>>]
ErrS3Denied ==
    [kind |-> "s3", netTimeout |-> FALSE, marks |-> {"AccessDenied"}, wrap |-> <<>>]
ErrS3Other ==
    [kind |-> "s3", netTimeout |-> FALSE, marks |-> {}, wrap |-> <<>>]

\* errors doRequest can return: transport errors unchanged, or the status error
RequestErrors ==
    {ErrClientTimeout, ErrStatus500, ErrStatus404}

\* fmt.Errorf(prefix + ": %w", err); none of the prefixes used by the client
\* contains one of the marks, so the marks of the result are those of err
Wrap(prefix, err) == [err EXCEPT !.wrap = <<prefix>> \o @]

\* the error a wrapped error unwraps to
Unwrapped(err) == [err EXCEPT !.wrap = <<>>]

isTimeoutError(err) ==
    /\ err # NoErr
    /\ \/ err.netTimeout
       \/ "timeout" \in err.marks
       \/ "deadline exceeded" \in err.marks
       \/ "Client.Timeout exceeded" \in err.marks

\* strings.Contains(checkErr.Error(), "not found")
ContainsNotFound(err) == "not found" \in err.marks

\* faulty variant: the substring test without "ExpiredToken"
isAuthError_NoExpired(err) ==
    err.marks \cap {"AccessDenied", "InvalidAccessKey", "TokenRefreshRequired"} # {}

\* the substring test of executeS3Operation
isAuthError(err) ==
    err.marks \cap {"AccessDenied", "InvalidAccessKey", "TokenRefreshRequired", "ExpiredToken"} # {}

\* ----------------------------------------------------------------- requests
Req(verb, arg) == [verb |-> verb, arg |-> arg]
GetList == Req("GET containers", 0)

\* ------------------------------------------------------------- bucket cache
\* a Go slice: nil, or a (possibly empty) list of bucket names
NilSlice == [nil |-> TRUE, items |-> <<>>]
Slice(s) == [nil |-> FALSE, items |-> s]
Range(s) == {s[i] : i \in 1..Len(s)}

Min(S) == CHOOSE m \in S : \A x \in S : m <= x
RECURSIVE SeqOf(_)
SeqOf(S) == IF S = {} THEN <<>> ELSE <<Min(S)>> \o SeqOf(S \ {Min(S)})

\* outcomes of GET /api/v4/org/containers followed by json.Unmarshal: the
\* list of the server's buckets ("data": [] or a missing/null data field when
\* there is none), a doRequest error, or a decode error
ListResponses(srv) ==
    {[err |-> NoErr, data |-> Slice(SeqOf(srv))]}
    \cup (IF srv = {} THEN {[err |-> NoErr, data |-> NilSlice]} ELSE {})
    \cup {[err |-> e, data |-> NilSlice] : e \in RequestErrors \cup {ErrDecode}}

\* faulty variant: the age comparison reversed
CacheFresh_Reversed(cache, cacheTime, t) ==
    /\ cacheTime # ZeroTime
    /\ t - cacheTime > cacheTimeout
    /\ ~cache.nil

\* time.Since(c.bucketCacheTime) < cacheTimeout && c.bucketCache != nil
\* (time.Since of the zero time saturates far above cacheTimeout)
CacheFresh(cache, cacheTime, t) ==
    /\ cacheTime # ZeroTime
    /\ t - cacheTime < cacheTimeout
    /\ ~cache.nil

\* the responses to choose from when the list may be requested (one is enough
\* when it cannot be)
ListResponsesIf(sent, srv) ==
    IF sent THEN ListResponses(srv) ELSE {[err |-> NoErr, data |-> Slice(SeqOf(srv))]}

\* faulty variant: a fetched list is added to the entries already cached
getCachedBucketList_Merge(cache, cacheTime, t, resp) ==
    IF CacheFresh(cache, cacheTime, t)
    THEN [cache |-> cache, cacheTime |-> cacheTime, list |-> cache,
          err |-> NoErr, reqs |-> <<>>]
    ELSE IF resp.err # NoErr
    THEN [cache |-> cache, cacheTime |-> cacheTime, list |-> NilSlice,
          err |-> Wrap("error executing request", resp.err), reqs |-> <<GetList>>]
    ELSE [cache |-> Slice(SeqOf(Range(cache.items) \cup Range(resp.data.items))),
          cacheTime |-> t,
          list |-> Slice(SeqOf(Range(cache.items) \cup Range(resp.data.items))),
          err |-> NoErr, reqs |-> <<GetList>>]

getCachedBucketList(cache, cacheTime, t, resp) ==
    IF CacheFresh(cache, cacheTime, t)
    THEN [cache |-> cache, cacheTime |-> cacheTime, list |-> cache,
          err |-> NoErr, reqs |-> <<>>]
    ELSE IF resp.err # NoErr
    THEN [cache |-> cache, cacheTime |-> cacheTime, list |-> NilSlice,
          err |-> Wrap(IF resp.err.kind = "decode"
                       THEN "error unmarshalling S3 bucket response"
                       ELSE "error executing request", resp.err),
          reqs |-> <<GetList>>]
    ELSE [cache |-> resp.data, cacheTime |-> t, list |-> resp.data,
          err |-> NoErr, reqs |-> <<GetList>>]

GetS3Bucket(cache, cacheTime, t, name, resp) ==
    LET r == getCachedBucketList(cache, cacheTime, t, resp) IN
    [cache |-> r.cache, cacheTime |-> r.cacheTime, reqs |-> r.reqs,
     found |-> r.err = NoErr /\ name \in Range(r.list.items),
     err |-> IF r.err # NoErr THEN r.err
             ELSE IF name \in Range(r.list.items) THEN NoErr
             ELSE ErrBucketNotFound]

\* ------------------------------------------------- bucket create and delete
\* outcomes of POST /api/v4/org/containers: the error the client sees and
\* whether the server created the bucket (a response can be lost or
\* undecodable after the server acted)
CreateResponses(name, srv) ==
    {[err |-> e, applied |-> FALSE] : e \in RequestErrors \cup {ErrApiStatus}}
    \cup (IF name \in srv THEN {}
          ELSE {[err |-> NoErr, applied |-> TRUE],
                [err |-> ErrClientTimeout, applied |-> TRUE],
                [err |-> ErrDecode, applied |-> TRUE]})

\* outcomes of DELETE /api/v4/org/containers/{name}
DeleteResponses(name, srv) ==
    {[err |-> e, applied |-> FALSE] : e \in RequestErrors}
    \cup (IF name \notin srv THEN {}
          ELSE {[err |-> NoErr, applied |-> TRUE],
                [err |-> ErrClientTimeout, applied |-> TRUE]})

\* faulty variant: the cache is kept after a successful create
CreateS3Bucket_NoInvalidate(cache, cacheTime, name, respErr) ==
    [cache |-> cache, cacheTime |-> cacheTime,
     reqs |-> <<Req("POST containers", name)>>,
     err |-> IF respErr = NoErr \/ respErr.kind = "apistatus" THEN respErr
             ELSE Wrap(IF respErr.kind = "decode"
                       THEN "error unmarshalling bucket create response"
                       ELSE "error executing request", respErr)]

CreateS3Bucket(cache, cacheTime, name, respErr) ==
    IF respErr # NoErr
    THEN [cache |-> cache, cacheTime |-> cacheTime,
          reqs |-> <<Req("POST containers", name)>>,
          err |-> IF respErr.kind = "apistatus" THEN respErr
                  ELSE Wrap(IF respErr.kind = "decode"
                            THEN "error unmarshalling bucket create response"
                            ELSE "error executing request", respErr)]
    ELSE [cache |-> NilSlice, cacheTime |-> ZeroTime,
          reqs |-> <<Req("POST containers", name)>>, err |-> NoErr]

\* faulty variant: the timeout branch returns success without clearing the cache
DeleteS3Bucket_KeepCacheOnTimeout(cache, cacheTime, t, name, delErr, listResp) ==
    LET del == <<Req("DELETE container", name)>>
        chk == GetS3Bucket(cache, cacheTime, t, name, listResp)
    IN
    IF delErr = NoErr
    THEN [cache |-> NilSlice, cacheTime |-> ZeroTime, reqs |-> del,
          err |-> NoErr, checked |-> FALSE, checkErr |-> NoErr, checkFound |-> FALSE]
    ELSE IF isTimeoutError(delErr)
    THEN [cache |-> chk.cache, cacheTime |-> chk.cacheTime, reqs |-> del \o chk.reqs,
          err |-> IF chk.err # NoErr /\ ContainsNotFound(chk.err) THEN NoErr
                  ELSE Wrap("error executing DELETE request", delErr),
          checked |-> TRUE, checkErr |-> chk.err, checkFound |-> chk.found]
    ELSE [cache |-> cache, cacheTime |-> cacheTime, reqs |-> del,
          err |-> Wrap("error executing DELETE request", delErr),
          checked |-> FALSE, checkErr |-> NoErr, checkFound |-> FALSE]

\* t is the time at which the existence check runs (after the 2s sleep)
DeleteS3Bucket(cache, cacheTime, t, name, delErr, listResp) ==
    LET del == <<Req("DELETE container", name)>>
        chk == GetS3Bucket(cache, cacheTime, t, name, listResp)
    IN
    IF delErr = NoErr
    THEN [cache |-> NilSlice, cacheTime |-> ZeroTime, reqs |-> del,
          err |-> NoErr, checked |-> FALSE, checkErr |-> NoErr, checkFound |-> FALSE]
    ELSE IF isTimeoutError(delErr)
    THEN IF chk.err # NoErr /\ ContainsNotFound(chk.err)
         THEN [cache |-> NilSlice, cacheTime |-> ZeroTime, reqs |-> del \o chk.reqs,
               err |-> NoErr, checked |-> TRUE, checkErr |-> chk.err,
               checkFound |-> chk.found]
         ELSE [cache |-> chk.cache, cacheTime |-> chk.cacheTime,
               reqs |-> del \o chk.reqs,
               err |-> Wrap("error executing DELETE request", delErr),
               checked |-> TRUE, checkErr |-> chk.err, checkFound |-> chk.found]
    ELSE [cache |-> cache, cacheTime |-> cacheTime, reqs |-> del,
          err |-> Wrap("error executing DELETE request", delErr),
          checked |-> FALSE, checkErr |-> NoErr, checkFound |-> FALSE]

\* ------------------------------------------- temporary S3 credential manager
\* outcomes of POST .../current-user/s3-access-keys and of decoding the
\* response: the error the client sees and whether the server created a key
\* (created and returned, created but the response lost, refused)
KeyResponses ==
    {[err |-> NoErr, applied |-> TRUE],
     [err |-> ErrClientTimeout, applied |-> TRUE],
     [err |-> ErrStatus500, applied |-> FALSE],
     [err |-> ErrApiStatus, applied |-> FALSE]}

\* outcomes of DELETE .../current-user/s3-access-keys/{id}
KeyDeleteResponses ==
    {[err |-> NoErr, applied |-> TRUE],
     [err |-> ErrClientTimeout, applied |-> TRUE],
     [err |-> ErrStatus500, applied |-> FALSE]}

\* the responses to choose from when the request may be sent (one is enough
\* when it cannot be)
KeyResponsesIf(sent) ==
    IF sent THEN KeyResponses ELSE {[err |-> NoErr, applied |-> TRUE]}
KeyDeleteResponsesIf(sent) ==
    IF sent THEN KeyDeleteResponses ELSE {[err |-> NoErr, applied |-> TRUE]}

\* errors the operation closure can return
OpOutcomes == {NoErr, ErrS3Expired, ErrS3Denied, ErrS3Other}

createTemporaryAccessKey(issued, valid, resp) ==
    LET id == issued + 1 IN
    [key |-> IF resp.err = NoErr THEN id ELSE Nil,
     err |-> IF resp.err = NoErr THEN NoErr
             ELSE IF resp.err.kind = "apistatus" THEN resp.err
             ELSE Wrap(IF resp.err.kind = "decode"
                       THEN "error unmarshalling access key response"
                       ELSE "error executing access key request", resp.err),
     issued |-> IF resp.applied THEN id ELSE issued,
     valid |-> IF resp.applied THEN valid \cup {id} ELSE valid,
     reqs |-> <<Req("POST s3-access-keys", 0)>>]

deleteAccessKey(valid, id, resp) ==
    [err |-> IF resp.err = NoErr THEN NoErr
             ELSE Wrap("error executing delete access key request", resp.err),
     valid |-> IF resp.applied THEN valid \ {id} ELSE valid,
     reqs |-> <<Req("DELETE s3-access-key", id)>>]

\* faulty variant: the cached client is not looked at
GetS3Client_NoCacheCheck(s3c, s3k, issued, valid, epValid, resp) ==
    LET k == createTemporaryAccessKey(issued, valid, resp) IN
    IF k.err # NoErr
    THEN [client |-> Nil, err |-> Wrap("failed to create temporary access key", k.err),
          s3Client |-> s3c, s3AccessKey |-> s3k,
          issued |-> k.issued, valid |-> k.valid, reqs |-> k.reqs]
    ELSE IF ~epValid
    THEN [client |-> Nil, err |-> Wrap("failed to create MinIO client", ErrEndpoint),
          s3Client |-> s3c, s3AccessKey |-> s3k,
          issued |-> k.issued, valid |-> k.valid, reqs |-> k.reqs]
    ELSE [client |-> k.key, err |-> NoErr, s3Client |-> k.key, s3AccessKey |-> k.key,
          issued |-> k.issued, valid |-> k.valid, reqs |-> k.reqs]

\* s3c, s3k: the cached client (named by the key it was built from) and key;
\* epValid: url.Parse and minio.New accept the S3 endpoint
GetS3Client(s3c, s3k, issued, valid, epValid, resp) ==
    LET k == createTemporaryAccessKey(issued, valid, resp) IN
    IF s3c # Nil
    THEN [client |-> s3c, err |-> NoErr, s3Client |-> s3c, s3AccessKey |-> s3k,
          issued |-> issued, valid |-> valid, reqs |-> <<>>]
    ELSE IF k.err # NoErr
    THEN [client |-> Nil, err |-> Wrap("failed to create temporary access key", k.err),
          s3Client |-> s3c, s3AccessKey |-> s3k,
          issued |-> k.issued, valid |-> k.valid, reqs |-> k.reqs]
    ELSE IF ~epValid
    THEN [client |-> Nil, err |-> Wrap("failed to create MinIO client", ErrEndpoint),
          s3Client |-> s3c, s3AccessKey |-> s3k,
          issued |-> k.issued, valid |-> k.valid, reqs |-> k.reqs]
    ELSE [client |-> k.key, err |-> NoErr, s3Client |-> k.key, s3AccessKey |-> k.key,
          issued |-> k.issued, valid |-> k.valid, reqs |-> k.reqs]

\* faulty variant: c.s3AccessKey.ID is read without the nil check
clearS3ClientCache_NoNilCheck(s3c, s3k, valid, resp) ==
    LET d == deleteAccessKey(valid, s3k, resp) IN
    IF s3k # Nil
    THEN [s3Client |-> Nil, s3AccessKey |-> Nil, valid |-> d.valid,
          reqs |-> d.reqs, panic |-> FALSE, delErr |-> d.err]
    ELSE [s3Client |-> s3c, s3AccessKey |-> s3k, valid |-> valid,
          reqs |-> <<>>, panic |-> TRUE, delErr |-> NoErr]

\* panic: a nil pointer dereference of c.s3AccessKey (guarded by the nil check)
clearS3ClientCache(s3c, s3k, valid, resp) ==
    LET d == deleteAccessKey(valid, s3k, resp) IN
    IF s3k # Nil
    THEN [s3Client |-> Nil, s3AccessKey |-> Nil, valid |-> d.valid,
          reqs |-> d.reqs, panic |-> FALSE, delErr |-> d.err]
    ELSE [s3Client |-> Nil, s3AccessKey |-> Nil, valid |-> valid,
          reqs |-> <<>>, panic |-> FALSE, delErr |-> NoErr]

CleanupS3Client(s3c, s3k, valid, resp) == clearS3ClientCache(s3c, s3k, valid, resp)

\* faulty variant: every failure of the operation clears the credential and
\* is retried
executeS3Operation_RetriesAnyError(g1, o1, cl, g2, o2) ==
    IF g1.err # NoErr
    THEN [err |-> Wrap("failed to get S3 client", g1.err),
          s3Client |-> g1.s3Client, s3AccessKey |-> g1.s3AccessKey,
          issued |-> g1.issued, valid |-> g1.valid, reqs |-> g1.reqs,
          calls |-> <<>>, firstErr |-> NoErr, retryErr |-> NoErr,
          cleared |-> FALSE, acquired |-> Nil, issuedMid |-> g1.issued]
    ELSE IF o1 # NoErr
    THEN IF g2.err # NoErr
         THEN [err |-> Wrap("failed to refresh S3 client after auth error", g2.err),
               s3Client |-> g2.s3Client, s3AccessKey |-> g2.s3AccessKey,
               issued |-> g2.issued, valid |-> g2.valid,
               reqs |-> g1.reqs \o cl.reqs \o g2.reqs,
               calls |-> <<g1.client>>, firstErr |-> o1, retryErr |-> NoErr,
               cleared |-> TRUE, acquired |-> Nil, issuedMid |-> g1.issued]
         ELSE [err |-> IF o2 # NoErr
                       THEN Wrap("S3 operation failed after retry", o2) ELSE NoErr,
               s3Client |-> g2.s3Client, s3AccessKey |-> g2.s3AccessKey,
               issued |-> g2.issued, valid |-> g2.valid,
               reqs |-> g1.reqs \o cl.reqs \o g2.reqs,
               calls |-> <<g1.client, g2.client>>, firstErr |-> o1, retryErr |-> o2,
               cleared |-> TRUE, acquired |-> g2.client, issuedMid |-> g1.issued]
    ELSE [err |-> o1,
          s3Client |-> g1.s3Client, s3AccessKey |-> g1.s3AccessKey,
          issued |-> g1.issued, valid |-> g1.valid, reqs |-> g1.reqs,
          calls |-> <<g1.client>>, firstErr |-> o1, retryErr |-> NoErr,
          cleared |-> FALSE, acquired |-> Nil, issuedMid |-> g1.issued]

\* faulty variant: an authorization-class failure also renews the management
\* session with a sign-in call
executeS3Operation_SignsInAgain(g1, o1, cl, g2, o2) ==
    IF g1.err # NoErr
    THEN [err |-> Wrap("failed to get S3 client", g1.err),
          s3Client |-> g1.s3Client, s3AccessKey |-> g1.s3AccessKey,
          issued |-> g1.issued, valid |-> g1.valid, reqs |-> g1.reqs,
          calls |-> <<>>, firstErr |-> NoErr, retryErr |-> NoErr,
          cleared |-> FALSE, acquired |-> Nil, issuedMid |-> g1.issued]
    ELSE IF o1 # NoErr /\ isAuthError(o1)
    THEN IF g2.err # NoErr
         THEN [err |-> Wrap("failed to refresh S3 client after auth error", g2.err),
               s3Client |-> g2.s3Client, s3AccessKey |-> g2.s3AccessKey,
               issued |-> g2.issued, valid |-> g2.valid,
               reqs |-> g1.reqs \o <<Req("POST authorize", 0)>> \o cl.reqs \o g2.reqs,
               calls |-> <<g1.client>>, firstErr |-> o1, retryErr |-> NoErr,
               cleared |-> TRUE, acquired |-> Nil, issuedMid |-> g1.issued]
         ELSE [err |-> IF o2 # NoErr
                       THEN Wrap("S3 operation failed after retry", o2) ELSE NoErr,
               s3Client |-> g2.s3Client, s3AccessKey |-> g2.s3AccessKey,
               issued |-> g2.issued, valid |-> g2.valid,
               reqs |-> g1.reqs \o <<Req("POST authorize", 0)>> \o cl.reqs \o g2.reqs,
               calls |-> <<g1.client, g2.client>>, firstErr |-> o1, retryErr |-> o2,
               cleared |-> TRUE, acquired |-> g2.client, issuedMid |-> g1.issued]
    ELSE [err |-> o1,
          s3Client |-> g1.s3Client, s3AccessKey |-> g1.s3AccessKey,
          issued |-> g1.issued, valid |-> g1.valid, reqs |-> g1.reqs,
          calls |-> <<g1.client>>, firstErr |-> o1, retryErr |-> NoErr,
          cleared |-> FALSE, acquired |-> Nil, issuedMid |-> g1.issued]

\* g1: the result of the first GetS3Client; o1: the result of the first call
\* of operation; cl: the result of clearS3ClientCache; g2: the result of the
\* second GetS3Client; o2: the result of the second call of operation (cl, g2
\* and o2 are only looked at on the paths that make these calls).  calls
\* lists the clients operation was invoked with, issuedMid is the number of
\* keys issued when the cache is cleared.
executeS3Operation(g1, o1, cl, g2, o2) ==
    IF g1.err # NoErr
    THEN [err |-> Wrap("failed to get S3 client", g1.err),
          s3Client |-> g1.s3Client, s3AccessKey |-> g1.s3AccessKey,
          issued |-> g1.issued, valid |-> g1.valid, reqs |-> g1.reqs,
          calls |-> <<>>, firstErr |-> NoErr, retryErr |-> NoErr,
          cleared |-> FALSE, acquired |-> Nil, issuedMid |-> g1.issued]
    ELSE IF o1 # NoErr /\ isAuthError(o1)
    THEN IF g2.err # NoErr
         THEN [err |-> Wrap("failed to refresh S3 client after auth error", g2.err),
               s3Client |-> g2.s3Client, s3AccessKey |-> g2.s3AccessKey,
               issued |-> g2.issued, valid |-> g2.valid,
               reqs |-> g1.reqs \o cl.reqs \o g2.reqs,
               calls |-> <<g1.client>>, firstErr |-> o1, retryErr |-> NoErr,
               cleared |-> TRUE, acquired |-> Nil, issuedMid |-> g1.issued]
         ELSE [err |-> IF o2 # NoErr
                       THEN Wrap("S3 operation failed after retry", o2) ELSE NoErr,
               s3Client |-> g2.s3Client, s3AccessKey |-> g2.s3AccessKey,
               issued |-> g2.issued, valid |-> g2.valid,
               reqs |-> g1.reqs \o cl.reqs \o g2.reqs,
               calls |-> <<g1.client, g2.client>>, firstErr |-> o1, retryErr |-> o2,
               cleared |-> TRUE, acquired |-> g2.client, issuedMid |-> g1.issued]
    ELSE [err |-> o1,
          s3Client |-> g1.s3Client, s3AccessKey |-> g1.s3AccessKey,
          issued |-> g1.issued, valid |-> g1.valid, reqs |-> g1.reqs,
          calls |-> <<g1.client>>, firstErr |-> o1, retryErr |-> NoErr,
          cleared |-> FALSE, acquired |-> Nil, issuedMid |-> g1.issued]

\* ------------------------------------------------------- management session
\* HTTP status codes the server answers with
Statuses == {199, 200, 299, 300, 404, 500}
\* bearer tokens ("" is the zero value of Client.Token)
Tokens == {"", "t1", "t2"}

\* response bodies: a JSON object with a string "data" field, a JSON object
\* without one, a JSON error document whose message text says "... not found",
\* and bytes that do not decode into the target struct.  marks are the
\* substrings looked for by callers that the raw bytes contain.
BodyToken(tok) == [valid |-> TRUE, token |-> tok, marks |-> {}]
BodyNoData == [valid |-> TRUE, token |-> "", marks |-> {}]
BodyNotFound == [valid |-> TRUE, token |-> "", marks |-> {"not found"}]
BodyGarbage == [valid |-> FALSE, token |-> "", marks |-> {}]
Bodies == {BodyToken("t1"), BodyToken("t2"), BodyNoData, BodyNotFound, BodyGarbage}

\* io.ReadAll failing in the middle of the body ("unexpected EOF")
ErrBodyRead ==
    [kind |-> "read", netTimeout |-> FALSE, marks |-> {}, wrap |-> <<>>]

\* fmt.Errorf("status: %d, body: %s", res.StatusCode, body)
StatusError(status, body) ==
    [kind |-> "status", netTimeout |-> FALSE, marks |-> body.marks, wrap |-> <<>>,
     status |-> status, body |-> body]

\* what HTTPClient.Do and io.ReadAll give: transport = "do" when Do returns an
\* error, "read" when reading the body does, "none" when the response was
\* received whole
HttpResponses ==
    {[transport |-> "do", status |-> 0, body |-> BodyGarbage],
     [transport |-> "read", status |-> 200, body |-> BodyGarbage]}
    \cup {[transport |-> "none", status |-> st, body |-> b] :
             st \in Statuses, b \in Bodies}

\* the error of the failing transport step of a response
TransportError(resp) ==
    IF resp.transport = "do" THEN ErrClientTimeout ELSE ErrBodyRead

SignIn(resp) ==
    LET sent == <<Req("POST authorize", 0)>> IN
    IF resp.transport = "do"
    THEN [ok |-> FALSE, token |-> "", reqs |-> sent,
          err |-> Wrap("error executing request", TransportError(resp))]
    ELSE IF resp.transport = "read"
    THEN [ok |-> FALSE, token |-> "", reqs |-> sent,
          err |-> Wrap("error reading response body", TransportError(resp))]
    ELSE IF resp.status # 200
    THEN [ok |-> FALSE, token |-> "", reqs |-> sent,
          err |-> StatusError(resp.status, resp.body)]
    ELSE IF ~resp.body.valid
    THEN [ok |-> FALSE, token |-> "", reqs |-> sent,
          err |-> Wrap("error unmarshalling auth response", ErrDecode)]
    ELSE [ok |-> TRUE, token |-> resp.body.token, reqs |-> sent, err |-> NoErr]

\* the arguments of NewClient are *string: TRUE when one is supplied, FALSE
\* when it is nil
NewClientArgs ==
    [endpoint : BOOLEAN, accountID : BOOLEAN, username : BOOLEAN, password : BOOLEAN]

AllSupplied(args) ==
    args.endpoint /\ args.accountID /\ args.username /\ args.password

\* faulty variant: the client is returned although the sign-in failed
NewClient_PartialOnError(args, resp) ==
    LET ar == SignIn(resp) IN
    IF ~args.endpoint
    THEN [client |-> FALSE, token |-> "", err |-> NoErr, reqs |-> <<>>, panic |-> TRUE]
    ELSE IF ~AllSupplied(args)
    THEN [client |-> TRUE, token |-> "", err |-> NoErr, reqs |-> <<>>, panic |-> FALSE]
    ELSE IF ar.err # NoErr
    THEN [client |-> TRUE, token |-> "", err |-> Wrap("failed to sign in", ar.err),
          reqs |-> ar.reqs, panic |-> FALSE]
    ELSE [client |-> TRUE, token |-> ar.token, err |-> NoErr, reqs |-> ar.reqs,
          panic |-> FALSE]

\* client: a non-nil *Client is returned, token: its Token.  EndpointURL is
\* set from *endpoint before the nil checks: a nil endpoint is a nil pointer
\* dereference.
NewClient(args, resp) ==
    LET ar == SignIn(resp) IN
    IF ~args.endpoint
    THEN [client |-> FALSE, token |-> "", err |-> NoErr, reqs |-> <<>>, panic |-> TRUE]
    ELSE IF ~AllSupplied(args)
    THEN [client |-> TRUE, token |-> "", err |-> NoErr, reqs |-> <<>>, panic |-> FALSE]
    ELSE IF ar.err # NoErr
    THEN [client |-> FALSE, token |-> "", err |-> Wrap("failed to sign in", ar.err),
          reqs |-> ar.reqs, panic |-> FALSE]
    ELSE [client |-> TRUE, token |-> ar.token, err |-> NoErr, reqs |-> ar.reqs,
          panic |-> FALSE]

\* the Authorization header: fmt.Sprintf("Bearer %s", c.Token)
Bearer(tok) == [scheme |-> "Bearer", token |-> tok]

\* a []byte result: nil, or the bytes read
NoBody == [nil |-> TRUE, bytes |-> BodyGarbage]
BodyOf(b) == [nil |-> FALSE, bytes |-> b]

\* faulty variant: only status 200 counts as success
doRequest_Only200(tok, resp) ==
    IF resp.transport # "none"
    THEN [header |-> Bearer(tok), body |-> NoBody, err |-> TransportError(resp)]
    ELSE IF resp.status # 200
    THEN [header |-> Bearer(tok), body |-> NoBody,
          err |-> StatusError(resp.status, resp.body)]
    ELSE [header |-> Bearer(tok), body |-> BodyOf(resp.body), err |-> NoErr]

doRequest(tok, resp) ==
    IF resp.transport # "none"
    THEN [header |-> Bearer(tok), body |-> NoBody, err |-> TransportError(resp)]
    ELSE IF resp.status < 200 \/ resp.status >= 300
    THEN [header |-> Bearer(tok), body |-> NoBody,
          err |-> StatusError(resp.status, resp.body)]
    ELSE [header |-> Bearer(tok), body |-> BodyOf(resp.body), err |-> NoErr]

\* ------------------------------------------------------- JSON wire values
\* a JSON value in a field of an object: absent, null, true, a number, a
\* string, or an array of such values
Absent == [t |-> "absent", n |-> 0, s |-> "", items |-> <<>>]
JNull == [t |-> "null", n |-> 0, s |-> "", items |-> <<>>]
JTrue == [t |-> "bool", n |-> 0, s |-> "", items |-> <<>>]
JNum(n) == [t |-> "number", n |-> n, s |-> "", items |-> <<>>]
JStr(s) == [t |-> "string", n |-> 0, s |-> s, items |-> <<>>]
JArr(items) == [t |-> "array", n |-> 0, s |-> "", items |-> items]

\* the sequences over S of length at most n
SeqsUpTo(S, n) == UNION {[1..k -> S] : k \in 0..n}

\* strconv.Atoi on the strings of the model: the decimal ones parse
AtoiTable == ("-1" :> (0 - 1)) @@ ("0" :> 0) @@ ("1" :> 1) @@ ("2" :> 2) @@ ("3" :> 3)
Atoi(s) ==
    IF s \in DOMAIN AtoiTable THEN [ok |-> TRUE, n |-> AtoiTable[s]]
    ELSE [ok |-> FALSE, n |-> 0]

\* ------------------------------------------------- DefaultRetentionSetting
Modes == {"", "compliance", "governance"}
RetentionValues == (0 - 1)..MaxDays
RetentionSettings == [Mode : Modes, Days : RetentionValues, Years : RetentionValues]

\* the object MarshalJSON emits and UnmarshalJSON reads; valid: json.Unmarshal
\* into the auxiliary struct succeeds (it is an object whose mode is a string)
RetentionDoc(mode, days, years) ==
    [valid |-> TRUE, mode |-> mode, days |-> days, years |-> years]
RetentionDocInvalid ==
    [valid |-> FALSE, mode |-> "", days |-> Absent, years |-> Absent]

\* faulty variant: days is always the field that is sent
MarshalJSON_AlwaysDays(d) ==
    RetentionDoc(d.Mode, JNum(d.Days), Absent)

\* faulty variant: both fields are sent
MarshalJSON_BothFields(d) ==
    RetentionDoc(d.Mode, JNum(d.Days), JNum(d.Years))

\* Days and Years are *int with omitempty: a nil pointer is left out
MarshalJSON(d) ==
    IF d.Years > 0
    THEN RetentionDoc(d.Mode, Absent, JNum(d.Years))
    ELSE RetentionDoc(d.Mode, JNum(d.Days), Absent)

\* faulty variant: only a number sets the field
RetentionField_NumbersOnly(prev, v) ==
    IF v.t = "number" THEN v.n ELSE prev

\* the type switch on an interface{} field: a non-empty string that Atoi
\* parses, or a number (float64, exact for the integers of the model), sets
\* the field; anything else leaves prev, the value the receiver had
RetentionField(prev, v) ==
    IF v.t = "string"
    THEN IF v.s # "" /\ Atoi(v.s).ok THEN Atoi(v.s).n ELSE prev
    ELSE IF v.t = "number" THEN v.n
    ELSE prev

\* d0: the receiver before the call
UnmarshalJSON(d0, doc) ==
    IF ~doc.valid
    THEN [d |-> d0, err |-> ErrDecode]
    ELSE [d |-> [Mode |-> doc.mode,
                 Days |-> RetentionField(d0.Days, doc.days),
                 Years |-> RetentionField(d0.Years, doc.years)],
          err |-> NoErr]

\* wire values of days and years as the API sends them
RetentionWireValues ==
    {Absent, JNull, JTrue, JStr(""), JStr("x")}
    \cup {JStr(s) : s \in DOMAIN AtoiTable}
    \cup {JNum(n) : n \in RetentionValues}
RetentionDocs ==
    {RetentionDocInvalid}
    \cup {RetentionDoc(m, dv, yv) :
             m \in Modes, dv \in RetentionWireValues, yv \in RetentionWireValues}

\* receivers UnmarshalJSON is called on: a new value, and one that holds data
RetentionZero == [Mode |-> "", Days |-> 0, Years |-> 0]
RetentionReceivers == {RetentionZero, [Mode |-> "governance", Days |-> 2, Years |-> 1]}

\* ------------------------------------------------------------ StringOrSlice
\* the strings of policy documents
PolicyStrings == {"a", "b"}

\* json.Unmarshal(b, &single) with var single string: a JSON string is stored,
\* null is accepted and leaves single = "", anything else is an error
DecodesAsString(w) == w.t \in {"string", "null"}
\* json.Unmarshal(b, &slice) with var slice []string: an array whose elements
\* decode as strings
DecodesAsStrings(w) ==
    w.t = "array" /\ \A i \in 1..Len(w.items) : DecodesAsString(w.items[i])

\* prev: the value of the receiver before the call
StringOrSliceUnmarshalJSON(prev, w) ==
    IF DecodesAsString(w)
    THEN [v |-> Slice(<<w.s>>), err |-> NoErr]
    ELSE IF DecodesAsStrings(w)
    THEN [v |-> Slice([i \in 1..Len(w.items) |-> w.items[i].s]), err |-> NoErr]
    ELSE [v |-> prev, err |-> ErrDecode]

\* faulty variant: the strings are emitted in reverse order
StringOrSliceMarshal_Reversed(v) ==
    IF v.nil THEN JNull
    ELSE JArr([i \in 1..Len(v.items) |-> JStr(v.items[Len(v.items) + 1 - i])])

\* StringOrSlice has no MarshalJSON: json.Marshal encodes it as the []string
\* it is, a nil slice as null
StringOrSliceMarshal(v) ==
    IF v.nil THEN JNull
    ELSE JArr([i \in 1..Len(v.items) |-> JStr(v.items[i])])

\* wire values of a field that holds one or many strings
StringOrSliceWire ==
    {JNull, JTrue, JNum(1), JStr(""), JStr("a"), JStr("b")}
    \cup {JArr(a) : a \in SeqsUpTo({JStr(x) : x \in PolicyStrings}, MaxLen)}
    \cup {JArr(<<JStr("a"), JNum(1)>>)}

\* StringOrSlice values: nil, or a list of strings
StringOrSliceValues ==
    {NilSlice} \cup {Slice(a) : a \in SeqsUpTo(PolicyStrings \cup {""}, MaxLen)}

\* --------------------------------------------------------------- Statement
ConditionOperators == {"StringLike", "StringEquals"}
ConditionKeys == {"s3:prefix", "aws:username"}

\* the functions from a subset of D to R: the objects with keys in D
Objects(D, R) == UNION {[K -> R] : K \in SUBSET D}
EmptyObject == [k \in {} |-> 0]

\* wire values of a condition key
ConditionWireValues ==
    {JNull, JNum(1), JStr("a"), JArr(<<>>),
     JArr(<<JStr("a"), JStr("b")>>), JArr(<<JStr("b"), JStr("a")>>)}

\* the wire form of the value of a condition operator: null, or an object
ConditionWireInner ==
    {[null |-> TRUE, keys |-> EmptyObject]}
    \cup {[null |-> FALSE, keys |-> f] : f \in Objects(ConditionKeys, ConditionWireValues)}

\* the wire form of Condition: the key is absent, null, or an object
ConditionWire ==
    {[t |-> "absent", ops |-> EmptyObject], [t |-> "null", ops |-> EmptyObject]}
    \cup {[t |-> "object", ops |-> f] : f \in Objects(ConditionOperators, ConditionWireInner)}

\* a Go map: nil, or its entries
NilMap == [nil |-> TRUE, m |-> EmptyObject]
Map(f) == [nil |-> FALSE, m |-> f]

\* decoding of map[string]StringOrSlice: null gives a nil map, an object a map
\* of the decoded values
UnmarshalConditionInner(wi) ==
    IF wi.null THEN [v |-> NilMap, err |-> NoErr]
    ELSE IF \E k \in DOMAIN wi.keys :
                StringOrSliceUnmarshalJSON(NilSlice, wi.keys[k]).err # NoErr
    THEN [v |-> NilMap, err |-> ErrDecode]
    ELSE [v |-> Map([k \in DOMAIN wi.keys |->
                        StringOrSliceUnmarshalJSON(NilSlice, wi.keys[k]).v]),
          err |-> NoErr]

\* decoding of the Condition field of a Statement
UnmarshalCondition(wc) ==
    IF wc.t # "object" THEN [v |-> NilMap, err |-> NoErr]
    ELSE IF \E o \in DOMAIN wc.ops : UnmarshalConditionInner(wc.ops[o]).err # NoErr
    THEN [v |-> NilMap, err |-> ErrDecode]
    ELSE [v |-> Map([o \in DOMAIN wc.ops |-> UnmarshalConditionInner(wc.ops[o]).v]),
          err |-> NoErr]

MarshalConditionInner(mi) ==
    IF mi.nil THEN [null |-> TRUE, keys |-> EmptyObject]
    ELSE [null |-> FALSE, keys |-> [k \in DOMAIN mi.m |-> StringOrSliceMarshal(mi.m[k])]]

\* json:"Condition,omitempty": a map without entries is left out
MarshalCondition(c) ==
    IF DOMAIN c.m = {} THEN [t |-> "absent", ops |-> EmptyObject]
    ELSE [t |-> "object", ops |-> [o \in DOMAIN c.m |-> MarshalConditionInner(c.m[o])]]

\* a Statement on the wire: its Action and its Condition
StatementWire ==
    [Action : {Absent, JStr("a"), JArr(<<JStr("a"), JStr("b")>>)},
     Condition : ConditionWire]

\* json.Unmarshal into a new Statement: a key that is absent leaves the zero
\* value of the field
UnmarshalStatement(ws) ==
    LET a == IF ws.Action = Absent THEN [v |-> NilSlice, err |-> NoErr]
             ELSE StringOrSliceUnmarshalJSON(NilSlice, ws.Action)
        c == UnmarshalCondition(ws.Condition)
    IN
    IF a.err # NoErr \/ c.err # NoErr
    THEN [v |-> [Action |-> NilSlice, Condition |-> NilMap], err |-> ErrDecode]
    ELSE [v |-> [Action |-> a.v, Condition |-> c.v], err |-> NoErr]

\* json:"Action" has no omitempty: the key is always written
MarshalStatement(st) ==
    [Action |-> StringOrSliceMarshal(st.Action),
     Condition |-> MarshalCondition(st.Condition)]

\* ------------------------------------------------------ policy plan modifier
\* statements of a policy document as written: Action and Resource as a bare
\* string or as an array, in the order written
PolicyStatementsWire ==
    {[Effect |-> "Allow", Action |-> JStr("a"), Resource |-> JStr("b")],
     [Effect |-> "Allow", Action |-> JArr(<<JStr("a")>>), Resource |-> JArr(<<JStr("b")>>)],
     [Effect |-> "Allow", Action |-> JArr(<<JStr("a"), JStr("b")>>),
      Resource |-> JArr(<<JStr("a"), JStr("b")>>)],
     [Effect |-> "Allow", Action |-> JArr(<<JStr("b"), JStr("a")>>),
      Resource |-> JArr(<<JStr("b"), JStr("a")>>)],
     [Effect |-> "Deny", Action |-> JStr("a"), Resource |-> JStr("b")]}

\* a policy JSON string: text that is no JSON, or a document with its
\* statements in the order written and its fields in one of two orders
PolicyInvalid == [valid |-> FALSE, fields |-> "Version,Statement", stmts |-> <<>>]
PolicyDocuments ==
    {PolicyInvalid}
    \cup {[valid |-> TRUE, fields |-> f, stmts |-> st] :
             f \in {"Version,Statement", "Statement,Version"},
             st \in SeqsUpTo(PolicyStatementsWire, MaxLen)}

\* the strings of a one-or-many-strings field, as a set
WireStrings(w) ==
    IF w.t = "string" THEN {w.s} ELSE {w.items[i].s : i \in 1..Len(w.items)}

\* a statement with its actions and resources as sets
NormalStatement(st) ==
    [Effect |-> st.Effect, Actions |-> WireStrings(st.Action),
     Resources |-> WireStrings(st.Resource)]

\* awspolicy.PoliciesAreEquivalent: both strings are parsed (an error if one
\* is no JSON) and compared as sets of statements whose actions and resources
\* are sets
PoliciesAreEquivalent(p1, p2) ==
    IF ~p1.valid \/ ~p2.valid
    THEN [equal |-> FALSE, err |-> ErrDecode]
    ELSE [equal |-> {NormalStatement(p1.stmts[i]) : i \in 1..Len(p1.stmts)}
                    = {NormalStatement(p2.stmts[i]) : i \in 1..Len(p2.stmts)},
          err |-> NoErr]

\* a types.String of the plugin framework: null, unknown, or a known string
TfNull == [t |-> "null", v |-> PolicyInvalid]
TfUnknown == [t |-> "unknown", v |-> PolicyInvalid]
TfString(v) == [t |-> "known", v |-> v]

\* faulty variant: the planned value is replaced without the comparison
PlanModifyString_NoComparison(plan, state) ==
    IF plan.t \in {"null", "unknown"}
    THEN [plan |-> plan, diag |-> "none"]
    ELSE IF state.t = "null"
    THEN [plan |-> plan, diag |-> "none"]
    ELSE [plan |-> state, diag |-> "none"]

\* plan: req.PlanValue, which is also the initial resp.PlanValue; state:
\* req.StateValue
PlanModifyString(plan, state) ==
    LET e == PoliciesAreEquivalent(plan.v, state.v) IN
    IF plan.t \in {"null", "unknown"}
    THEN [plan |-> plan, diag |-> "none"]
    ELSE IF state.t = "null"
    THEN [plan |-> plan, diag |-> "none"]
    ELSE IF e.err # NoErr
    THEN [plan |-> plan, diag |-> "error"]
    ELSE IF e.equal
    THEN [plan |-> state, diag |-> "none"]
    ELSE [plan |-> plan, diag |-> "none"]

\* ------------------------------------------- object lock configuration resource
\* the default_retention_setting block of a configuration: no block, or a
\* block whose attributes are each given (set, with value v) or left out
RetentionBlocks ==
    LET Attr == {[set |-> FALSE, v |-> 0]}
                \cup {[set |-> TRUE, v |-> n] : n \in RetentionValues}
    IN
    {[present |-> FALSE, mode |-> "", days |-> [set |-> FALSE, v |-> 0],
      years |-> [set |-> FALSE, v |-> 0]]}
    \cup {[present |-> TRUE, mode |-> m, days |-> d, years |-> y] :
             m \in {"", "governance"}, d \in Attr, y \in Attr}

\* the planned block: mode, days and years are Optional and Computed with the
\* static defaults "compliance", 1 and 1, which the plan takes for every
\* attribute the configuration leaves out (mode "" stands for mode left out)
SchemaDefaults(block) ==
    [present |-> block.present,
     Mode |-> IF block.mode = "" THEN "compliance" ELSE block.mode,
     Days |-> IF block.days.set THEN block.days.v ELSE 1,
     Years |-> IF block.years.set THEN block.years.v ELSE 1]

\* the *utils.DefaultRetentionSetting that Create and Update build from the
\* plan: <<>> is the nil pointer
RetentionOfPlan(plan) ==
    IF ~plan.present THEN <<>>
    ELSE IF plan.Years > 0
    THEN <<[Mode |-> plan.Mode, Days |-> 0, Years |-> plan.Years]>>
    ELSE <<[Mode |-> plan.Mode, Days |-> plan.Days, Years |-> 0]>>

\* PUT .../object-lock: the body is {"enabled": ..., "defaultRetentionSetting":
\* ...}, the latter left out for a nil pointer (omitempty) and encoded by
\* MarshalJSON otherwise; respErr is the outcome of the request
UpdateS3BucketObjectLock(enabled, setting, respErr) ==
    [puts |-> <<[enabled |-> enabled,
                 retention |-> IF setting = <<>> THEN <<>>
                               ELSE <<MarshalJSON(setting[1])>>]>>,
     err |-> IF respErr = NoErr \/ respErr.kind = "apistatus" THEN respErr
             ELSE Wrap(IF respErr.kind = "decode"
                       THEN "error unmarshalling bucket object lock update response"
                       ELSE "error executing PUT request", respErr)]

\* lock: the answer of GetS3BucketObjectLock (its error, and whether object
\* lock is enabled on the bucket); saved: the plan was written to the state
S3BucketObjectLockConfigurationResourceCreate(plan, lock, respErr) ==
    LET u == UpdateS3BucketObjectLock(TRUE, RetentionOfPlan(plan), respErr) IN
    IF lock.err # NoErr \/ ~lock.enabled
    THEN [puts |-> <<>>, diag |-> "error", saved |-> FALSE]
    ELSE IF u.err # NoErr
    THEN [puts |-> u.puts, diag |-> "error", saved |-> FALSE]
    ELSE [puts |-> u.puts, diag |-> "none", saved |-> TRUE]

S3BucketObjectLockConfigurationResourceUpdate(plan, respErr) ==
    LET u == UpdateS3BucketObjectLock(TRUE, RetentionOfPlan(plan), respErr) IN
    IF u.err # NoErr
    THEN [puts |-> u.puts, diag |-> "error", saved |-> FALSE]
    ELSE [puts |-> u.puts, diag |-> "none", saved |-> TRUE]

\* ---------------------------------------------------- lifecycle configuration
\* time.Parse("2006-01-02T15:04:05.000Z", s) on the date strings of the model:
\* the layout asks for three fractional digits and a literal Z, so of the
\* ISO 8601 forms of 31 December 2025 (day 20453 of the Unix era) only the
\* one with milliseconds parses
ExpirationDates ==
    {"2025-12-31T00:00:00.000Z", "2025-12-31T00:00:00Z", "2025-12-31"}
ParseExpirationDate(s) ==
    IF s = "2025-12-31T00:00:00.000Z" THEN [ok |-> TRUE, day |-> 20453]
    ELSE [ok |-> FALSE, day |-> 0]

\* a utils.Rule: Expiration and NoncurrentVersionExpiration are pointers (<<>>
\* is nil); Date "" is no date
LifecycleRules ==
    [Expiration : {<<>>} \cup {<<e>> : e \in [Days : {0, MaxDays},
                                             Date : {""} \cup ExpirationDates]},
     NoncurrentDays : {<<>>, <<1>>}]

\* the lifecycle.Rule built from a rule: Date <<>> is the zero ExpirationDate,
\* which is not sent
MinioRule(rule) ==
    LET e == rule.Expiration IN
    [Days |-> IF e # <<>> /\ e[1].Days > 0 THEN e[1].Days ELSE 0,
     Date |-> IF e # <<>> /\ e[1].Date # "" /\ ParseExpirationDate(e[1].Date).ok
              THEN <<ParseExpirationDate(e[1].Date).day>> ELSE <<>>,
     NoncurrentDays |-> IF rule.NoncurrentDays # <<>> THEN rule.NoncurrentDays[1] ELSE 0]

\* the closure PutS3BucketLifecycleConfiguration hands to executeS3Operation:
\* the configuration it sends with SetBucketLifecycle, and its error for the
\* outcome opErr of that call
PutS3BucketLifecycleConfiguration(rules, opErr) ==
    [config |-> [i \in 1..Len(rules) |-> MinioRule(rules[i])],
     err |-> IF opErr = NoErr THEN NoErr
             ELSE Wrap("error setting bucket lifecycle configuration", opErr)]

\* ------------------------------------------------------------ Read handlers
\* GET /api/v4/org/groups/{id}: errors of doRequest and of json.Unmarshal are
\* returned as they are
GetGroup(tok, resp) ==
    LET r == doRequest(tok, resp) IN
    IF r.err # NoErr THEN [found |-> FALSE, err |-> r.err]
    ELSE IF ~r.body.bytes.valid THEN [found |-> FALSE, err |-> ErrDecode]
    ELSE [found |-> TRUE, err |-> NoErr]

\* what a Read handler answers: removed = resp.State.RemoveResource was
\* called, diag = the severity of the diagnostic it added ("none" without one)
\* lookupErr: the error GetS3Bucket returned
S3BucketResourceRead(lookupErr) ==
    IF lookupErr # NoErr
    THEN [removed |-> TRUE, diag |-> "warning"]
    ELSE [removed |-> FALSE, diag |-> "none"]

\* lookupErr: the error GetGroup returned
GroupResourceRead(lookupErr) ==
    IF lookupErr # NoErr
    THEN IF ContainsNotFound(lookupErr)
         THEN [removed |-> TRUE, diag |-> "none"]
         ELSE [removed |-> FALSE, diag |-> "error"]
    ELSE [removed |-> FALSE, diag |-> "none"]

\* ---------------------------------------------------------------- the state
\* what the last completed call did: its arguments, the requests it sent, the
\* responses it got (inErr), what it returned, and whether the bucket cache
\* held a list when it started (pre)
LastNone ==
    [op |-> "none", arg |-> 0, err |-> NoErr, reqs |-> <<>>,
     inErr |-> NoErr, checked |-> FALSE, checkErr |-> NoErr, checkFound |-> FALSE,
     found |-> FALSE, client |-> Nil, calls |-> <<>>,
     firstErr |-> NoErr, retryErr |-> NoErr, cleared |-> FALSE, acquired |-> Nil,
     panic |-> FALSE, pre |-> FALSE, in |-> <<>>, out |-> <<>>]

\* the goroutines the plugin server runs callbacks on; a goroutine is between
\* calls (idle) or at a step of a call, with the call's local variables
Goroutines == 1..NumGoroutines
GoIdle == [pc |-> "idle", arg |-> 0, key |-> Nil, list |-> NilSlice, after |-> FALSE]

Init ==
    /\ Token = "t1"
    /\ bucketCache = NilSlice
    /\ bucketCacheTime = ZeroTime
    /\ s3Client = Nil
    /\ s3AccessKey = Nil
    /\ serverBuckets \in SUBSET Buckets
    /\ validKeys = {}
    /\ issuedKeys = 0
    /\ now = 0
    /\ endpointValid \in BOOLEAN
    /\ mainPc = "serve"
    /\ sigPc = "waiting"
    /\ sigPending = FALSE
    /\ exited = FALSE
    /\ cleanupBy = {}
    /\ goroutines = [g \in Goroutines |-> GoIdle]
    /\ createdOk = {}
    /\ last = LastNone
    /\ populatedAt = ZeroTime
    /\ everHeld = FALSE
    /\ runCreated = 0

\* the provider is serving resource callbacks
Serving == ~exited /\ mainPc = "serve"

\* a fetch of the bucket list that left a list in the cache
Populated(r, resp) == r.reqs # <<>> /\ resp.err = NoErr /\ ~resp.data.nil

Tick ==
    /\ ~exited
    /\ now < MaxTime
    /\ now' = now + 1
    /\ last' = [LastNone EXCEPT !.op = "Tick"]
    /\ UNCHANGED <<clientVars, serverVars, endpointValid, procVars,
                   populatedAt, everHeld, runCreated>>

GetS3BucketOp(name) ==
    /\ Serving
    /\ \E resp \in ListResponsesIf(~CacheFresh(bucketCache, bucketCacheTime, now),
                                   serverBuckets) :
       \E r \in {GetS3Bucket(bucketCache, bucketCacheTime, now, name, resp)} :
         /\ bucketCache' = r.cache
         /\ bucketCacheTime' = r.cacheTime
         /\ populatedAt' = IF Populated(r, resp) THEN now ELSE populatedAt
         /\ last' = [LastNone EXCEPT !.op = "GetS3Bucket", !.arg = name,
                                     !.err = r.err, !.reqs = r.reqs, !.found = r.found,
                                     !.pre = ~bucketCache.nil]
    /\ UNCHANGED <<Token, s3Client, s3AccessKey, serverVars, now, endpointValid,
                   procVars, everHeld, runCreated>>

CreateS3BucketOp(name) ==
    /\ Serving
    /\ \E resp \in CreateResponses(name, serverBuckets) :
       \E r \in {CreateS3Bucket(bucketCache, bucketCacheTime, name, resp.err)} :
         /\ serverBuckets' = IF resp.applied THEN serverBuckets \cup {name}
                             ELSE serverBuckets
         /\ bucketCache' = r.cache
         /\ bucketCacheTime' = r.cacheTime
         /\ populatedAt' = IF r.err = NoErr THEN ZeroTime ELSE populatedAt
         /\ last' = [LastNone EXCEPT !.op = "CreateS3Bucket", !.arg = name,
                                     !.err = r.err, !.reqs = r.reqs, !.inErr = resp.err,
                                     !.pre = ~bucketCache.nil]
    /\ UNCHANGED <<Token, s3Client, s3AccessKey, validKeys, issuedKeys, now,
                   endpointValid, procVars, everHeld, runCreated>>

\* d: the minutes that pass between the DELETE and the existence check
DeleteS3BucketOp(name) ==
    /\ Serving
    /\ \E resp \in DeleteResponses(name, serverBuckets) :
       \E d \in IF isTimeoutError(resp.err) THEN 0..1 ELSE {0} :
         LET srv == IF resp.applied THEN serverBuckets \ {name} ELSE serverBuckets
             t == now + d
         IN
         /\ t <= MaxTime
         /\ \E lr \in ListResponsesIf(isTimeoutError(resp.err)
                                      /\ ~CacheFresh(bucketCache, bucketCacheTime, t), srv) :
           \E r \in {DeleteS3Bucket(bucketCache, bucketCacheTime, t, name, resp.err, lr)},
              chk \in {GetS3Bucket(bucketCache, bucketCacheTime, t, name, lr)} :
              /\ serverBuckets' = srv
              /\ now' = t
              /\ bucketCache' = r.cache
              /\ bucketCacheTime' = r.cacheTime
              /\ populatedAt' = IF r.err = NoErr THEN ZeroTime
                                ELSE IF r.checked /\ Populated(chk, lr) THEN t
                                ELSE populatedAt
              /\ last' = [LastNone EXCEPT !.op = "DeleteS3Bucket", !.arg = name,
                                          !.err = r.err, !.reqs = r.reqs,
                                          !.inErr = resp.err, !.checked = r.checked,
                                          !.checkErr = r.checkErr,
                                          !.checkFound = r.checkFound,
                                          !.pre = ~bucketCache.nil]
    /\ UNCHANGED <<Token, s3Client, s3AccessKey, validKeys, issuedKeys, endpointValid,
                   procVars, everHeld, runCreated>>

GetS3ClientOp ==
    /\ Serving
    /\ \E resp \in KeyResponsesIf(s3Client = Nil) :
       \E r \in {GetS3Client(s3Client, s3AccessKey, issuedKeys, validKeys,
                             endpointValid, resp)} :
         /\ r.issued <= MaxKeys
         /\ s3Client' = r.s3Client
         /\ s3AccessKey' = r.s3AccessKey
         /\ issuedKeys' = r.issued
         /\ validKeys' = r.valid
         /\ everHeld' = (everHeld \/ r.s3AccessKey # Nil)
         /\ runCreated' = runCreated + (r.issued - issuedKeys)
         /\ last' = [LastNone EXCEPT !.op = "GetS3Client", !.err = r.err,
                                     !.reqs = r.reqs, !.client = r.client,
                                     !.inErr = resp.err]
    /\ UNCHANGED <<Token, bucketCache, bucketCacheTime, serverBuckets, now,
                   endpointValid, procVars, populatedAt>>

\* kr1, kr2: responses to the key requests of the first and the second
\* GetS3Client; dr: response to the key deletion
ExecuteS3OperationOp ==
    /\ Serving
    /\ \E kr1 \in KeyResponsesIf(s3Client = Nil), o1 \in OpOutcomes :
       \E dr \in KeyDeleteResponsesIf(isAuthError(o1)),
          kr2 \in KeyResponsesIf(isAuthError(o1)) :
       \E o2 \in IF isAuthError(o1) /\ kr2.err = NoErr THEN OpOutcomes ELSE {NoErr} :
       \E g1 \in {GetS3Client(s3Client, s3AccessKey, issuedKeys, validKeys,
                              endpointValid, kr1)} :
       \E cl \in {clearS3ClientCache(g1.s3Client, g1.s3AccessKey, g1.valid, dr)} :
       \E g2 \in {GetS3Client(cl.s3Client, cl.s3AccessKey, g1.issued, cl.valid,
                              endpointValid, kr2)} :
       \E r \in {executeS3Operation(g1, o1, cl, g2, o2)} :
         /\ r.issued <= MaxKeys
         /\ s3Client' = r.s3Client
         /\ s3AccessKey' = r.s3AccessKey
         /\ issuedKeys' = r.issued
         /\ validKeys' = r.valid
         /\ everHeld' = (everHeld \/ r.s3AccessKey # Nil \/ r.calls # <<>>)
         /\ runCreated' = IF r.cleared THEN r.issued - r.issuedMid
                          ELSE runCreated + (r.issued - issuedKeys)
         /\ last' = [LastNone EXCEPT !.op = "executeS3Operation", !.err = r.err,
                                     !.reqs = r.reqs, !.calls = r.calls,
                                     !.firstErr = r.firstErr, !.retryErr = r.retryErr,
                                     !.cleared = r.cleared, !.acquired = r.acquired]
    /\ UNCHANGED <<Token, bucketCache, bucketCacheTime, serverBuckets, now,
                   endpointValid, procVars, populatedAt>>

\* the effect of one call of CleanupS3Client on the client
CleanupS3ClientCall ==
    \E dr \in KeyDeleteResponsesIf(s3AccessKey # Nil) :
       \E r \in {CleanupS3Client(s3Client, s3AccessKey, validKeys, dr)} :
       /\ s3Client' = r.s3Client
       /\ s3AccessKey' = r.s3AccessKey
       /\ validKeys' = r.valid
       /\ runCreated' = 0
       /\ last' = [LastNone EXCEPT !.op = "CleanupS3Client", !.arg = s3AccessKey,
                                   !.reqs = r.reqs, !.panic = r.panic,
                                   !.inErr = dr.err, !.err = r.delErr]
       /\ UNCHANGED <<Token, bucketCache, bucketCacheTime, serverBuckets, issuedKeys,
                      now, endpointValid, populatedAt, everHeld>>

CleanupS3ClientOp ==
    /\ Serving
    /\ CleanupS3ClientCall
    /\ UNCHANGED procVars

\* ------------------------------------------------------ session operations
\* the provider configures itself, once and before any other call: a client
\* returned by NewClient replaces the one in use, with empty caches; a panic
\* ends the process
NewClientOp ==
    /\ Serving
    /\ last.op = "none"
    /\ \E args \in NewClientArgs :
       \E resp \in IF AllSupplied(args) THEN HttpResponses
                   ELSE {[transport |-> "do", status |-> 0, body |-> BodyGarbage]} :
       \E r \in {NewClient(args, resp)} :
         /\ IF r.client
            THEN /\ Token' = r.token
                 /\ bucketCache' = NilSlice
                 /\ bucketCacheTime' = ZeroTime
                 /\ s3Client' = Nil
                 /\ s3AccessKey' = Nil
                 /\ populatedAt' = ZeroTime
            ELSE UNCHANGED <<clientVars, populatedAt>>
         /\ last' = [LastNone EXCEPT !.op = "NewClient", !.err = r.err,
                                     !.reqs = r.reqs, !.panic = r.panic,
                                     !.in = [args |-> args, resp |-> resp],
                                     !.out = [client |-> r.client, token |-> r.token]]
         /\ exited' = r.panic
    /\ UNCHANGED <<serverVars, now, endpointValid, mainPc, sigPc, sigPending,
                   cleanupBy, goVars, everHeld, runCreated>>

\* one authenticated request of the client in use
DoRequestOp ==
    /\ Serving
    /\ \E resp \in HttpResponses :
       \E r \in {doRequest(Token, resp)} :
         last' = [LastNone EXCEPT !.op = "doRequest", !.err = r.err,
                                  !.in = [resp |-> resp],
                                  !.out = [header |-> r.header, body |-> r.body]]
    /\ UNCHANGED <<clientVars, serverVars, now, endpointValid, procVars,
                   populatedAt, everHeld, runCreated>>

\* --------------------------------------------------- resource Read handlers
S3BucketResourceReadOp(name) ==
    /\ Serving
    /\ \E resp \in ListResponsesIf(~CacheFresh(bucketCache, bucketCacheTime, now),
                                   serverBuckets) :
       \E g \in {GetS3Bucket(bucketCache, bucketCacheTime, now, name, resp)} :
       \E r \in {S3BucketResourceRead(g.err)} :
         /\ bucketCache' = g.cache
         /\ bucketCacheTime' = g.cacheTime
         /\ populatedAt' = IF Populated(g, resp) THEN now ELSE populatedAt
         /\ last' = [LastNone EXCEPT !.op = "S3BucketResource.Read", !.arg = name,
                                     !.err = g.err, !.reqs = g.reqs, !.found = g.found,
                                     !.out = r]
    /\ UNCHANGED <<Token, s3Client, s3AccessKey, serverVars, now, endpointValid,
                   procVars, everHeld, runCreated>>

GroupResourceReadOp ==
    /\ Serving
    /\ \E resp \in HttpResponses :
       \E g \in {GetGroup(Token, resp)} :
       \E r \in {GroupResourceRead(g.err)} :
         last' = [LastNone EXCEPT !.op = "GroupResource.Read", !.err = g.err,
                                  !.found = g.found, !.in = [resp |-> resp],
                                  !.out = r]
    /\ UNCHANGED <<clientVars, serverVars, now, endpointValid, procVars,
                   populatedAt, everHeld, runCreated>>

\* ------------------------------------------------------------ JSON codecs
\* The codecs are pure functions of their arguments: a behaviour applies one
\* of them once, to arguments drawn from the sets above.
NoCallYet == last.op = "none"

\* a retention setting is encoded and the result decoded
RetentionRoundTripOp ==
    /\ NoCallYet
    /\ \E d \in RetentionSettings, d0 \in RetentionReceivers :
       \E doc \in {MarshalJSON(d)} :
       \E u \in {UnmarshalJSON(d0, doc)} :
         last' = [LastNone EXCEPT !.op = "DefaultRetentionSetting round trip",
                                  !.err = u.err,
                                  !.in = [d |-> d, d0 |-> d0],
                                  !.out = [doc |-> doc, d |-> u.d]]
    /\ UNCHANGED <<clientVars, serverVars, now, endpointValid, procVars,
                   populatedAt, everHeld, runCreated>>

\* a retention setting received from the API is decoded
RetentionUnmarshalOp ==
    /\ NoCallYet
    /\ \E doc \in RetentionDocs, d0 \in RetentionReceivers :
       \E u \in {UnmarshalJSON(d0, doc)} :
         last' = [LastNone EXCEPT !.op = "DefaultRetentionSetting.UnmarshalJSON",
                                  !.err = u.err,
                                  !.in = [doc |-> doc, d0 |-> d0],
                                  !.out = [d |-> u.d]]
    /\ UNCHANGED <<clientVars, serverVars, now, endpointValid, procVars,
                   populatedAt, everHeld, runCreated>>

\* a one-or-many-strings field is decoded
StringOrSliceUnmarshalOp ==
    /\ NoCallYet
    /\ \E w \in StringOrSliceWire, prev \in {NilSlice, Slice(<<"b">>)} :
       \E r \in {StringOrSliceUnmarshalJSON(prev, w)} :
         last' = [LastNone EXCEPT !.op = "StringOrSlice.UnmarshalJSON",
                                  !.err = r.err,
                                  !.in = [w |-> w, prev |-> prev],
                                  !.out = [v |-> r.v]]
    /\ UNCHANGED <<clientVars, serverVars, now, endpointValid, procVars,
                   populatedAt, everHeld, runCreated>>

\* a StringOrSlice value is encoded
StringOrSliceMarshalOp ==
    /\ NoCallYet
    /\ \E v \in StringOrSliceValues :
       \E w \in {StringOrSliceMarshal(v)} :
         last' = [LastNone EXCEPT !.op = "StringOrSlice marshal",
                                  !.in = [v |-> v],
                                  !.out = [w |-> w]]
    /\ UNCHANGED <<clientVars, serverVars, now, endpointValid, procVars,
                   populatedAt, everHeld, runCreated>>

\* a statement is decoded from a policy document, encoded, and decoded again
StatementRoundTripOp ==
    /\ NoCallYet
    /\ \E ws \in StatementWire :
       \E s1 \in {UnmarshalStatement(ws)} :
       \E w2 \in {MarshalStatement(s1.v)} :
       \E s2 \in {UnmarshalStatement(w2)} :
         /\ s1.err = NoErr
         /\ last' = [LastNone EXCEPT !.op = "Statement round trip",
                                     !.err = s2.err,
                                     !.in = [ws |-> ws, st |-> s1.v],
                                     !.out = [ws |-> w2, st |-> s2.v]]
    /\ UNCHANGED <<clientVars, serverVars, now, endpointValid, procVars,
                   populatedAt, everHeld, runCreated>>

\* the plan modifier of the S3 policy attribute runs on a planned value and a
\* prior state value
PlanModifyStringOp ==
    /\ NoCallYet
    /\ \E plan \in {TfNull, TfUnknown} \cup {TfString(p) : p \in PolicyDocuments},
          state \in {TfNull} \cup {TfString(p) : p \in PolicyDocuments} :
       \E r \in {PlanModifyString(plan, state)} :
         last' = [LastNone EXCEPT !.op = "PlanModifyString",
                                  !.in = [plan |-> plan, state |-> state],
                                  !.out = r]
    /\ UNCHANGED <<clientVars, serverVars, now, endpointValid, procVars,
                   populatedAt, everHeld, runCreated>>

\* ------------------------------------------------------ the provider process
\* utils.CleanupAllClients(): cleans up the client the provider configured
CleanupAllClients == CleanupS3ClientCall

\* the OS delivers SIGINT/SIGTERM: signal.Notify puts it in sigChan (buffer 1)
DeliverSignal ==
    /\ ~exited
    /\ ~sigPending
    /\ sigPending' = TRUE
    /\ last' = [LastNone EXCEPT !.op = "signal"]
    /\ UNCHANGED <<clientVars, serverVars, now, endpointValid, mainPc, sigPc, exited,
                   cleanupBy, populatedAt, everHeld, runCreated>>
    /\ UNCHANGED goVars

\* the cleanup goroutine: <-sigChan
SigHandlerReceive ==
    /\ ~exited
    /\ sigPc = "waiting"
    /\ sigPending
    /\ sigPending' = FALSE
    /\ sigPc' = "cleanup"
    /\ last' = [LastNone EXCEPT !.op = "receive"]
    /\ UNCHANGED <<clientVars, serverVars, now, endpointValid, mainPc, exited,
                   cleanupBy, populatedAt, everHeld, runCreated>>
    /\ UNCHANGED goVars

\* the cleanup goroutine: utils.CleanupAllClients()
SigHandlerCleanup ==
    /\ ~exited
    /\ sigPc = "cleanup"
    /\ CleanupAllClients
    /\ sigPc' = "exit"
    /\ cleanupBy' = cleanupBy \cup {"signal"}
    /\ UNCHANGED <<mainPc, sigPending, exited>>
    /\ UNCHANGED goVars

\* the cleanup goroutine: os.Exit(0)
SigHandlerExit ==
    /\ ~exited
    /\ sigPc = "exit"
    /\ exited' = TRUE
    /\ sigPc' = "done"
    /\ last' = [LastNone EXCEPT !.op = "os.Exit"]
    /\ UNCHANGED <<clientVars, serverVars, now, endpointValid, mainPc, sigPending,
                   cleanupBy, populatedAt, everHeld, runCreated>>
    /\ UNCHANGED goVars

\* providerserver.Serve returns, with an error or without
ServeReturns ==
    /\ Serving
    /\ \E failed \in BOOLEAN : mainPc' = IF failed THEN "fatal" ELSE "deferred"
    /\ last' = [LastNone EXCEPT !.op = "Serve returns"]
    /\ UNCHANGED <<clientVars, serverVars, now, endpointValid, sigPc, sigPending,
                   exited, cleanupBy, populatedAt, everHeld, runCreated>>
    /\ UNCHANGED goVars

\* log.Fatal(err.Error()): prints and calls os.Exit(1); deferred functions do
\* not run
LogFatal ==
    /\ ~exited
    /\ mainPc = "fatal"
    /\ exited' = TRUE
    /\ mainPc' = "done"
    /\ last' = [LastNone EXCEPT !.op = "log.Fatal"]
    /\ UNCHANGED <<clientVars, serverVars, now, endpointValid, sigPc, sigPending,
                   cleanupBy, populatedAt, everHeld, runCreated>>
    /\ UNCHANGED goVars

\* main returns normally: the deferred function runs utils.CleanupAllClients()
DeferredCleanup ==
    /\ ~exited
    /\ mainPc = "deferred"
    /\ CleanupAllClients
    /\ mainPc' = "return"
    /\ cleanupBy' = cleanupBy \cup {"defer"}
    /\ UNCHANGED <<sigPc, sigPending, exited>>
    /\ UNCHANGED goVars

\* main has returned: the process exits
MainReturn ==
    /\ ~exited
    /\ mainPc = "return"
    /\ exited' = TRUE
    /\ mainPc' = "done"
    /\ last' = [LastNone EXCEPT !.op = "main returns"]
    /\ UNCHANGED <<clientVars, serverVars, now, endpointValid, sigPc, sigPending,
                   cleanupBy, populatedAt, everHeld, runCreated>>
    /\ UNCHANGED goVars

\* -------------------------------------------------- object lock operations
\* terraform plans the configuration and calls Create
ObjectLockCreateOp ==
    /\ NoCallYet
    /\ \E block \in RetentionBlocks,
          lock \in {[err |-> NoErr, enabled |-> TRUE], [err |-> NoErr, enabled |-> FALSE],
                    [err |-> Wrap("error executing request", ErrStatus500),
                     enabled |-> FALSE]},
          respErr \in RequestErrors \cup {NoErr, ErrDecode, ErrApiStatus} :
       \E r \in {S3BucketObjectLockConfigurationResourceCreate(
                     SchemaDefaults(block), lock, respErr)} :
         last' = [LastNone EXCEPT !.op = "ObjectLock Create",
                                  !.inErr = respErr,
                                  !.in = [block |-> block, plan |-> SchemaDefaults(block),
                                          lock |-> lock],
                                  !.out = r]
    /\ UNCHANGED <<clientVars, serverVars, now, endpointValid, procVars,
                   populatedAt, everHeld, runCreated>>

\* terraform plans a changed configuration and calls Update
ObjectLockUpdateOp ==
    /\ NoCallYet
    /\ \E block \in RetentionBlocks,
          respErr \in RequestErrors \cup {NoErr, ErrDecode, ErrApiStatus} :
       \E r \in {S3BucketObjectLockConfigurationResourceUpdate(
                     SchemaDefaults(block), respErr)} :
         last' = [LastNone EXCEPT !.op = "ObjectLock Update",
                                  !.inErr = respErr,
                                  !.in = [block |-> block, plan |-> SchemaDefaults(block)],
                                  !.out = r]
    /\ UNCHANGED <<clientVars, serverVars, now, endpointValid, procVars,
                   populatedAt, everHeld, runCreated>>

\* ------------------------------------------------------ lifecycle operations
\* PutS3BucketLifecycleConfiguration: executeS3Operation runs the closure with
\* the client it acquires, and again after an authorization-class failure;
\* sent lists the configurations that reached SetBucketLifecycle
PutS3BucketLifecycleConfigurationOp ==
    /\ Serving
    /\ NoCallYet
    /\ \E rules \in UNION {[1..n -> LifecycleRules] : n \in 1..MaxLen},
          kr1 \in KeyResponsesIf(s3Client = Nil), o1 \in OpOutcomes :
       \E dr \in KeyDeleteResponsesIf(isAuthError(o1)),
          kr2 \in KeyResponsesIf(isAuthError(o1)) :
       \E o2 \in IF isAuthError(o1) /\ kr2.err = NoErr THEN OpOutcomes ELSE {NoErr} :
       \E p1 \in {PutS3BucketLifecycleConfiguration(rules, o1)},
          p2 \in {PutS3BucketLifecycleConfiguration(rules, o2)} :
       \E g1 \in {GetS3Client(s3Client, s3AccessKey, issuedKeys, validKeys,
                              endpointValid, kr1)} :
       \E cl \in {clearS3ClientCache(g1.s3Client, g1.s3AccessKey, g1.valid, dr)} :
       \E g2 \in {GetS3Client(cl.s3Client, cl.s3AccessKey, g1.issued, cl.valid,
                              endpointValid, kr2)} :
       \E r \in {executeS3Operation(g1, p1.err, cl, g2, p2.err)} :
         /\ r.issued <= MaxKeys
         /\ s3Client' = r.s3Client
         /\ s3AccessKey' = r.s3AccessKey
         /\ issuedKeys' = r.issued
         /\ validKeys' = r.valid
         /\ everHeld' = (everHeld \/ r.s3AccessKey # Nil \/ r.calls # <<>>)
         /\ runCreated' = IF r.cleared THEN r.issued - r.issuedMid
                          ELSE runCreated + (r.issued - issuedKeys)
         /\ last' = [LastNone EXCEPT
                       !.op = "PutS3BucketLifecycleConfiguration", !.err = r.err,
                       !.calls = r.calls, !.firstErr = r.firstErr,
                       !.retryErr = r.retryErr,
                       !.in = [rules |-> rules],
                       !.out = [sent |-> [i \in 1..Len(r.calls) |-> p1.config]]]
    /\ UNCHANGED <<Token, bucketCache, bucketCacheTime, serverBuckets, now,
                   endpointValid, procVars, populatedAt>>

\* ----------------------------------------------------- concurrent callbacks
\* The plugin server runs callbacks on several goroutines that share the one
\* client, and the client takes no lock.  A call is divided where it waits
\* for the server: what a goroutine does up to the point where the server has
\* acted on its request is one step, what it does with the answer is the
\* next; the steps of different goroutines interleave.  (A finer division,
\* down to the single reads and writes of the fields, would only add
\* behaviours.)  A call that returns is recorded in last.

\* GetS3Client up to createTemporaryAccessKey: the cached client is returned,
\* or the key request is sent and the server creates the key or refuses
GoGetS3ClientCall(g) ==
    /\ Serving
    /\ goroutines[g].pc = "idle"
    /\ IF s3Client # Nil
       THEN /\ last' = [LastNone EXCEPT !.op = "GetS3Client", !.arg = g,
                                        !.client = s3Client]
            /\ UNCHANGED <<goroutines, issuedKeys, validKeys>>
       ELSE /\ issuedKeys < MaxKeys
            /\ \E resp \in {x \in KeyResponses : x.applied <=> x.err = NoErr} :
               \E k \in {createTemporaryAccessKey(issuedKeys, validKeys, resp)} :
                 /\ issuedKeys' = k.issued
                 /\ validKeys' = k.valid
                 /\ IF k.err # NoErr
                    THEN /\ last' = [LastNone EXCEPT
                                       !.op = "GetS3Client", !.arg = g, !.reqs = k.reqs,
                                       !.err = Wrap("failed to create temporary access key",
                                                    k.err)]
                         /\ UNCHANGED goroutines
                    ELSE /\ goroutines' = [goroutines EXCEPT ![g].pc = "storeCredential",
                                                             ![g].key = k.key]
                         /\ UNCHANGED last
    /\ UNCHANGED <<clientVars, serverBuckets, now, endpointValid, mainVars, createdOk,
                   populatedAt, everHeld, runCreated>>

\* GetS3Client from the answer on: the MinIO client is built, client and key
\* are stored in the cache, and c.s3Client is returned
GoStoreCredential(g) ==
    /\ goroutines[g].pc = "storeCredential"
    /\ s3Client' = goroutines[g].key
    /\ s3AccessKey' = goroutines[g].key
    /\ goroutines' = [goroutines EXCEPT ![g] = GoIdle]
    /\ last' = [LastNone EXCEPT !.op = "GetS3Client", !.arg = g,
                                !.client = goroutines[g].key]
    /\ UNCHANGED <<Token, bucketCache, bucketCacheTime, serverVars, now, endpointValid,
                   mainVars, createdOk, populatedAt, everHeld, runCreated>>

\* clearS3ClientCache (from executeS3Operation after an authorization-class
\* error) up to deleteAccessKey: the key in the cache, if there is one, is
\* deleted on the server
GoClearCall(g) ==
    /\ Serving
    /\ goroutines[g].pc = "idle"
    /\ validKeys' = IF s3AccessKey # Nil THEN validKeys \ {s3AccessKey} ELSE validKeys
    /\ goroutines' = [goroutines EXCEPT ![g].pc = "clearCache"]
    /\ UNCHANGED <<clientVars, serverBuckets, issuedKeys, now, endpointValid, mainVars,
                   createdOk, histVars>>

\* clearS3ClientCache from the answer on: c.s3Client = nil, c.s3AccessKey = nil
GoClearCache(g) ==
    /\ goroutines[g].pc = "clearCache"
    /\ s3Client' = Nil
    /\ s3AccessKey' = Nil
    /\ goroutines' = [goroutines EXCEPT ![g] = GoIdle]
    /\ last' = [LastNone EXCEPT !.op = "clearS3ClientCache", !.arg = g]
    /\ UNCHANGED <<Token, bucketCache, bucketCacheTime, serverVars, now, endpointValid,
                   mainVars, createdOk, populatedAt, everHeld, runCreated>>

\* GetS3Bucket up to the answer of the server: a cached list that is fresh is
\* searched and the call returns; otherwise the list request is sent and the
\* server answers with its buckets of that moment (after: CreateS3Bucket of
\* this bucket had returned success when the call started)
GoGetS3BucketCall(g, name) ==
    /\ Serving
    /\ goroutines[g].pc = "idle"
    /\ IF CacheFresh(bucketCache, bucketCacheTime, now)
       THEN /\ last' = [LastNone EXCEPT
                          !.op = "GetS3Bucket by goroutine", !.arg = name,
                          !.found = name \in Range(bucketCache.items),
                          !.err = IF name \in Range(bucketCache.items) THEN NoErr
                                  ELSE ErrBucketNotFound,
                          !.in = [after |-> name \in createdOk]]
            /\ UNCHANGED goroutines
       ELSE \E resp \in ListResponses(serverBuckets) :
              IF resp.err # NoErr
              THEN /\ last' = [LastNone EXCEPT
                                 !.op = "GetS3Bucket by goroutine", !.arg = name,
                                 !.reqs = <<GetList>>,
                                 !.err = Wrap("error executing request", resp.err),
                                 !.in = [after |-> name \in createdOk]]
                   /\ UNCHANGED goroutines
              ELSE /\ goroutines' = [goroutines EXCEPT
                                       ![g] = [GoIdle EXCEPT !.pc = "storeList",
                                                             !.arg = name,
                                                             !.list = resp.data,
                                                             !.after = name \in createdOk]]
                   /\ UNCHANGED last
    /\ UNCHANGED <<clientVars, serverVars, now, endpointValid, mainVars, createdOk,
                   populatedAt, everHeld, runCreated>>

\* getCachedBucketList from the answer on: the list and the time are stored
\* in the cache, and GetS3Bucket searches the list
GoStoreList(g) ==
    /\ goroutines[g].pc = "storeList"
    /\ bucketCache' = goroutines[g].list
    /\ bucketCacheTime' = now
    /\ goroutines' = [goroutines EXCEPT ![g] = GoIdle]
    /\ last' = [LastNone EXCEPT
                   !.op = "GetS3Bucket by goroutine", !.arg = goroutines[g].arg,
                   !.reqs = <<GetList>>,
                   !.found = goroutines[g].arg \in Range(goroutines[g].list.items),
                   !.err = IF goroutines[g].arg \in Range(goroutines[g].list.items)
                           THEN NoErr ELSE ErrBucketNotFound,
                   !.in = [after |-> goroutines[g].after]]
    /\ UNCHANGED <<Token, s3Client, s3AccessKey, serverVars, now, endpointValid,
                   mainVars, createdOk, populatedAt, everHeld, runCreated>>

\* CreateS3Bucket up to the answer of the server: the request is sent and the
\* server creates the bucket or not; a failure is returned
GoCreateS3BucketCall(g, name) ==
    /\ Serving
    /\ goroutines[g].pc = "idle"
    /\ \E resp \in CreateResponses(name, serverBuckets) :
         /\ serverBuckets' = IF resp.applied THEN serverBuckets \cup {name}
                             ELSE serverBuckets
         /\ IF resp.err # NoErr
            THEN /\ last' = [LastNone EXCEPT
                               !.op = "CreateS3Bucket by goroutine", !.arg = name,
                               !.inErr = resp.err,
                               !.err = CreateS3Bucket(bucketCache, bucketCacheTime,
                                                      name, resp.err).err]
                 /\ UNCHANGED goroutines
            ELSE /\ goroutines' = [goroutines EXCEPT
                                     ![g] = [GoIdle EXCEPT !.pc = "invalidate",
                                                           !.arg = name]]
                 /\ UNCHANGED last
    /\ UNCHANGED <<clientVars, validKeys, issuedKeys, now, endpointValid, mainVars,
                   createdOk, populatedAt, everHeld, runCreated>>

\* CreateS3Bucket from the answer on: the cache is cleared and success is
\* returned
GoInvalidate(g) ==
    /\ goroutines[g].pc = "invalidate"
    /\ bucketCache' = NilSlice
    /\ bucketCacheTime' = ZeroTime
    /\ createdOk' = createdOk \cup {goroutines[g].arg}
    /\ goroutines' = [goroutines EXCEPT ![g] = GoIdle]
    /\ last' = [LastNone EXCEPT !.op = "CreateS3Bucket by goroutine",
                                !.arg = goroutines[g].arg]
    /\ UNCHANGED <<Token, s3Client, s3AccessKey, serverVars, now, endpointValid,
                   mainVars, populatedAt, everHeld, runCreated>>

\* the bucket operations of the client, with time passing between them
NextBuckets ==
    \/ Tick
    \/ \E name \in Buckets : GetS3BucketOp(name)
    \/ \E name \in Buckets : CreateS3BucketOp(name)
    \/ \E name \in Buckets : DeleteS3BucketOp(name)

\* the temporary credential operations of the client
NextCreds ==
    \/ GetS3ClientOp
    \/ ExecuteS3OperationOp
    \/ CleanupS3ClientOp

\* the provider process: it serves S3 operations until a signal arrives or
\* Serve returns
NextMain ==
    \/ GetS3ClientOp
    \/ DeliverSignal
    \/ SigHandlerReceive
    \/ SigHandlerCleanup
    \/ SigHandlerExit
    \/ ServeReturns
    \/ LogFatal
    \/ DeferredCleanup
    \/ MainReturn

\* The bucket cache and the credential cache are disjoint fields of the client
\* and no operation touches both, so each is explored on its own.
InitBuckets == Init /\ endpointValid = TRUE
InitCreds == Init /\ serverBuckets = {}
InitCodec == Init /\ serverBuckets = {} /\ endpointValid = TRUE

SpecBuckets == InitBuckets /\ [][NextBuckets]_vars
SpecCreds == InitCreds /\ [][NextCreds]_vars
SpecMain == InitCreds /\ [][NextMain]_vars

\* construction of the client and its authenticated requests
NextSession ==
    \/ NewClientOp
    \/ DoRequestOp

SpecSession == InitCodec /\ [][NextSession]_vars

\* a client in use: it is constructed, sends requests, and runs the operations
\* that have failure and retry paths (DeleteS3Bucket looks the bucket up after
\* a timeout, executeS3Operation acquires, clears and re-acquires the S3
\* credential), and cleanup
NextClient ==
    \/ NewClientOp
    \/ DoRequestOp
    \/ \E name \in Buckets : DeleteS3BucketOp(name)
    \/ ExecuteS3OperationOp
    \/ CleanupS3ClientOp

SpecClient == InitCodec /\ [][NextClient]_vars

\* the Read handlers of the bucket and the group resource, with time passing
\* between the calls
NextRead ==
    \/ Tick
    \/ \E name \in Buckets : S3BucketResourceReadOp(name)
    \/ GroupResourceReadOp

SpecRead == InitBuckets /\ [][NextRead]_vars

\* the JSON codec of DefaultRetentionSetting
NextRetention ==
    \/ RetentionRoundTripOp
    \/ RetentionUnmarshalOp

SpecRetention == InitCodec /\ [][NextRetention]_vars

\* the JSON codec of policy statements and the plan modifier of the policy
\* attribute
NextPolicy ==
    \/ StringOrSliceUnmarshalOp
    \/ StringOrSliceMarshalOp
    \/ StatementRoundTripOp
    \/ PlanModifyStringOp

SpecPolicy == InitCodec /\ [][NextPolicy]_vars

\* Create and Update of the object lock configuration resource
NextObjectLock ==
    \/ ObjectLockCreateOp
    \/ ObjectLockUpdateOp

SpecObjectLock == InitCodec /\ [][NextObjectLock]_vars

\* goroutines that acquire and clear the S3 credential concurrently
NextConcurrentCreds ==
    \/ \E g \in Goroutines : GoGetS3ClientCall(g)
    \/ \E g \in Goroutines : GoStoreCredential(g)
    \/ \E g \in Goroutines : GoClearCall(g)
    \/ \E g \in Goroutines : GoClearCache(g)

SpecConcurrentCreds == InitCodec /\ [][NextConcurrentCreds]_vars

\* goroutines that look buckets up and create buckets concurrently, with
\* time passing
NextConcurrentBuckets ==
    \/ Tick
    \/ \E g \in Goroutines, name \in Buckets : GoGetS3BucketCall(g, name)
    \/ \E g \in Goroutines : GoStoreList(g)
    \/ \E g \in Goroutines, name \in Buckets : GoCreateS3BucketCall(g, name)
    \/ \E g \in Goroutines : GoInvalidate(g)

SpecConcurrentBuckets == InitBuckets /\ [][NextConcurrentBuckets]_vars

\* the lifecycle configuration of a bucket is set
NextLifecycle ==
    \/ PutS3BucketLifecycleConfigurationOp

SpecLifecycle == InitCreds /\ [][NextLifecycle]_vars

TypeOK ==
    /\ bucketCache.nil \in BOOLEAN
    /\ bucketCacheTime \in {ZeroTime} \cup 0..MaxTime
    /\ s3Client \in 0..MaxKeys
    /\ s3AccessKey \in 0..MaxKeys
    /\ serverBuckets \subseteq Buckets
    /\ validKeys \subseteq 1..MaxKeys
    /\ issuedKeys \in 0..MaxKeys
    /\ now \in 0..MaxTime

\* ------------------------------------------------------------- properties
CacheCleared == bucketCache = NilSlice /\ bucketCacheTime = ZeroTime

\* the existence check of the last DeleteS3Bucket reported that the bucket is
\* not in the bucket list
CheckReportedNotFound == last.checked /\ last.checkErr = ErrBucketNotFound

DeleteTimedOut == last.op = "DeleteS3Bucket" /\ isTimeoutError(last.inErr)

\* C1: when the DELETE of DeleteS3Bucket fails with a timeout-classified error
\* and the existence check reports NotFound, DeleteS3Bucket returns no error
\* and the bucket cache is cleared when it returns.
C1_TimeoutThenNotFoundIsSuccess ==
    (DeleteTimedOut /\ CheckReportedNotFound) =>
        (last.err = NoErr /\ CacheCleared)

C1_Witness ==
    /\ DeleteTimedOut
    /\ CheckReportedNotFound
    /\ last.pre
    /\ last.err = NoErr

\* the marks of an authorization-class S3 error
AuthMarks == {"AccessDenied", "InvalidAccessKey", "TokenRefreshRequired", "ExpiredToken"}

\* the last call was an executeS3Operation whose first invocation of the
\* operation failed with an authorization-class error
AuthFailure ==
    /\ last.op = "executeS3Operation"
    /\ last.calls # <<>>
    /\ last.firstErr.marks \cap AuthMarks # {}

\* the requests of the last call end with the deletion of the key the first
\* invocation used, followed by exactly one request for a new key
ClearedThenOneKeyRequest ==
    /\ Len(last.reqs) >= 2
    /\ last.reqs[Len(last.reqs) - 1] = Req("DELETE s3-access-key", last.calls[1])
    /\ last.reqs[Len(last.reqs)] = Req("POST s3-access-keys", 0)
    /\ Cardinality({i \in 1..Len(last.reqs) :
                      last.reqs[i].verb = "DELETE s3-access-key"}) = 1

\* C2 as stated: after an authorization-class failure the client clears the
\* cached credential, acquires exactly one fresh credential and invokes the
\* operation exactly once more; it returns an error only if that retry fails.
C2_AsStated ==
    AuthFailure =>
        /\ ClearedThenOneKeyRequest
        /\ last.acquired # Nil
        /\ Len(last.calls) = 2
        /\ (last.err # NoErr) <=> (last.retryErr # NoErr)

\* C2 amended: after an authorization-class failure the client clears the
\* cached credential and sends exactly one request for a fresh credential; if
\* that gives a new client the operation is invoked exactly once more, with
\* the new client, and an error is returned only if that retry fails; if it
\* does not, an error is returned without a second invocation and nothing is
\* cached.
C2_RetryOnceAfterRefresh ==
    AuthFailure =>
        /\ ClearedThenOneKeyRequest
        /\ IF last.acquired # Nil
           THEN /\ Len(last.calls) = 2
                /\ last.calls[2] = last.acquired
                /\ last.acquired # last.calls[1]
                /\ s3Client = last.acquired /\ s3AccessKey = last.acquired
                /\ (last.err # NoErr) <=> (last.retryErr # NoErr)
                /\ last.err # NoErr => Unwrapped(last.err) = last.retryErr
           ELSE /\ Len(last.calls) = 1
                /\ last.err # NoErr
                /\ s3Client = Nil /\ s3AccessKey = Nil

C2_Witness ==
    /\ AuthFailure
    /\ "ExpiredToken" \in last.firstErr.marks
    /\ last.acquired # Nil
    /\ last.err = NoErr

\* C3: once a successful lookup has populated the bucket cache (populatedAt),
\* a GetS3Bucket call made less than 5 minutes later, with no successful
\* create or delete in between, sends no HTTP request.
C3_CacheHitSendsNoRequest ==
    [][(/\ last'.op = "GetS3Bucket"
        /\ populatedAt # ZeroTime
        /\ now - populatedAt < cacheTimeout)
       => (/\ last'.reqs = <<>>
           /\ last'.found <=> last'.arg \in Range(bucketCache.items)
           /\ bucketCache' = bucketCache /\ bucketCacheTime' = bucketCacheTime)]_vars

C3_Witness ==
    /\ last.op = "GetS3Bucket"
    /\ populatedAt # ZeroTime
    /\ now - populatedAt \in 1..(cacheTimeout - 1)
    /\ last.reqs = <<>>
    /\ last.found

SuccessfulChange ==
    last.op \in {"CreateS3Bucket", "DeleteS3Bucket"} /\ last.err = NoErr

\* C4: after a CreateS3Bucket or DeleteS3Bucket call that returns success the
\* bucket cache is empty with zero fetch time, and the next GetS3Bucket call
\* sends a GET of the bucket list.
C4_ChangeInvalidatesCache ==
    /\ [](SuccessfulChange => CacheCleared)
    /\ [][(SuccessfulChange /\ last'.op = "GetS3Bucket")
          => last'.reqs = <<GetList>>]_vars

C4_Witness ==
    /\ last.op = "CreateS3Bucket"
    /\ last.err = NoErr
    /\ last.pre
    /\ CacheCleared

\* C5: when the DELETE fails with a timeout-classified error and the existence
\* check does not report NotFound (the bucket is found, or the check fails for
\* another reason), DeleteS3Bucket returns an error wrapping the timeout error.
C5_TimeoutOtherwiseIsError ==
    (DeleteTimedOut /\ ~CheckReportedNotFound) =>
        (last.err # NoErr /\ Unwrapped(last.err) = last.inErr)

\* C6: after CleanupS3Client returns on a client that held a temporary
\* credential (last.arg), that credential is revoked on the server and the
\* cached client and credential are cleared.
C6_CleanupRevokes ==
    (last.op = "CleanupS3Client" /\ last.arg # Nil) =>
        (last.arg \notin validKeys /\ s3Client = Nil /\ s3AccessKey = Nil)

\* C7: whenever the provider process has terminated, credential cleanup has
\* been invoked before.
C7_CleanupBeforeExit == exited => cleanupBy # {}

\* C8: the signal handler and the deferred exit handler never both run
\* cleanup.
C8_CleanupAtMostOnce == ~({"signal", "defer"} \subseteq cleanupBy)

\* C9: CleanupS3Client on a client that never held a temporary credential
\* does not panic, sends no request and leaves client and server unchanged.
C9_CleanupWithoutCredential ==
    [][(last'.op = "CleanupS3Client" /\ ~everHeld)
       => (/\ ~last'.panic
           /\ last'.reqs = <<>>
           /\ clientVars' = clientVars
           /\ serverVars' = serverVars)]_vars

C9_Witness ==
    /\ last.op = "CleanupS3Client"
    /\ ~everHeld
    /\ last.reqs = <<>>
    /\ s3AccessKey = Nil

\* C10 as stated: a GetS3Client call leaves a cached client and key, and in a
\* run of GetS3Client calls without cache clear exactly one key is created.
C10_AsStated ==
    last.op = "GetS3Client" =>
        /\ last.err = NoErr
        /\ s3Client # Nil /\ s3Client = last.client /\ s3AccessKey = last.client
        /\ runCreated = 1

\* C10 amended: GetS3Client returns the cached client without any request
\* when one is cached; otherwise it sends exactly one request for a new key
\* and, only when that request and the construction of the S3 client both
\* succeed, caches the client and the key and returns the client; when either
\* fails it returns an error and caches nothing.  So no key is created by a
\* call made after one has returned a client, until the cache is cleared.
C10_GetS3ClientCaches ==
    [][last'.op = "GetS3Client" =>
        IF s3Client # Nil
        THEN /\ last'.reqs = <<>>
             /\ last'.err = NoErr
             /\ last'.client = s3Client
             /\ clientVars' = clientVars
             /\ serverVars' = serverVars
        ELSE /\ last'.reqs = <<Req("POST s3-access-keys", 0)>>
             /\ issuedKeys' <= issuedKeys + 1
             /\ IF last'.err = NoErr
                THEN /\ issuedKeys' = issuedKeys + 1
                     /\ last'.client = issuedKeys'
                     /\ last'.client \in validKeys'
                     /\ s3Client' = last'.client
                     /\ s3AccessKey' = last'.client
                ELSE /\ last'.client = Nil
                     /\ s3Client' = Nil
                     /\ s3AccessKey' = Nil]_vars

C10_Witness ==
    /\ last.op = "GetS3Client"
    /\ last.reqs = <<>>
    /\ last.client # Nil
    /\ last.client = s3Client
    /\ runCreated = 1

NewClientCalled == last.op = "NewClient"

\* the sign-in call of the last NewClient got a whole response
SignInAnswered == last.in.resp.transport = "none"

\* C11 as stated: with all four arguments supplied NewClient performs exactly
\* one sign-in call; on a transport failure or a status other than 200 it
\* returns an error and no client; on status 200 it returns a client whose
\* Token is the token of the response.
C11_AsStated ==
    (NewClientCalled /\ AllSupplied(last.in.args)) =>
        /\ last.reqs = <<Req("POST authorize", 0)>>
        /\ (~SignInAnswered \/ last.in.resp.status # 200)
               => (last.err # NoErr /\ ~last.out.client)
        /\ (SignInAnswered /\ last.in.resp.status = 200)
               => (/\ last.err = NoErr
                   /\ last.out.client
                   /\ last.out.token = last.in.resp.body.token)

\* C11 amended: with all four arguments supplied NewClient performs exactly
\* one sign-in call; on a transport failure, a status other than 200, or a
\* status 200 whose body does not decode, it returns an error and no client;
\* on status 200 with a body that decodes it returns a client whose Token is
\* the token of the response.
C11_SignInOnceOrFail ==
    (NewClientCalled /\ AllSupplied(last.in.args)) =>
        /\ ~last.panic
        /\ last.reqs = <<Req("POST authorize", 0)>>
        /\ IF SignInAnswered /\ last.in.resp.status = 200 /\ last.in.resp.body.valid
           THEN /\ last.err = NoErr
                /\ last.out.client
                /\ last.out.token = last.in.resp.body.token
                /\ Token = last.out.token
           ELSE /\ last.err # NoErr
                /\ ~last.out.client

C11_Witness ==
    /\ NewClientCalled
    /\ AllSupplied(last.in.args)
    /\ SignInAnswered
    /\ last.in.resp.status = 200
    /\ last.out.client
    /\ last.out.token = "t2"
    /\ Token = "t2"

\* C12: when any of the four arguments is nil NewClient does not panic,
\* performs no sign-in call and returns a client with an empty token and no
\* error.
C12_NilArgumentGivesUnauthenticatedClient ==
    (NewClientCalled /\ ~AllSupplied(last.in.args)) =>
        /\ ~last.panic
        /\ last.reqs = <<>>
        /\ last.err = NoErr
        /\ last.out.client
        /\ last.out.token = ""

\* C14: doRequest sends "Bearer <Token>" as the Authorization header; when the
\* response is received it returns the body exactly when the status is in
\* [200,300), and for any other status no body and an error holding the status
\* code and the raw body; an error of the transport is returned as it is, with
\* no body.
C14_DoRequestClassifiesStatus ==
    last.op = "doRequest" =>
        /\ last.out.header = Bearer(Token)
        /\ IF last.in.resp.transport = "none"
           THEN IF last.in.resp.status \in 200..299
                THEN /\ last.out.body = BodyOf(last.in.resp.body)
                     /\ last.err = NoErr
                ELSE /\ last.out.body.nil
                     /\ last.err.kind = "status"
                     /\ last.err.status = last.in.resp.status
                     /\ last.err.body = last.in.resp.body
           ELSE /\ last.out.body.nil
                /\ last.err = TransportError(last.in.resp)

C14_Witness ==
    /\ last.op = "doRequest"
    /\ last.in.resp.transport = "none"
    /\ last.in.resp.status = 299
    /\ last.out.body = BodyOf(BodyNoData)
    /\ Token = "t2"

SignInRequests(reqs) == {i \in 1..Len(reqs) : reqs[i].verb = "POST authorize"}

\* C13: no operation of a constructed client (a request, a bucket or
\* credential operation, cleanup, with their failure and retry paths) changes
\* Token or performs a sign-in call.
C13_TokenFixedAfterConstruction ==
    [][last'.op # "NewClient"
       => (Token' = Token /\ SignInRequests(last'.reqs) = {})]_vars

C13_Witness ==
    /\ last.op = "executeS3Operation"
    /\ last.cleared
    /\ last.retryErr # NoErr
    /\ Token = "t2"

\* the step is an executeS3Operation whose operation failed with an error that
\* is not authorization-class
OtherFailureStep ==
    /\ last'.op = "executeS3Operation"
    /\ last'.calls # <<>>
    /\ last'.firstErr # NoErr
    /\ last'.firstErr.marks \cap AuthMarks = {}

\* C16: when the operation fails with an error that is not
\* authorization-class it is invoked exactly once and that error is returned;
\* the client and credential the operation ran with stay cached, no
\* credential is revoked and none is created after the failure: with a client
\* cached before the call nothing is requested or changed, and without one
\* the only request is the one that acquired the credential the operation ran
\* with.
C16_OtherFailureReturnedOnce ==
    [][OtherFailureStep
       => (/\ Len(last'.calls) = 1
           /\ last'.err = last'.firstErr
           /\ ~last'.cleared
           /\ s3Client' = last'.calls[1] /\ s3AccessKey' = last'.calls[1]
           /\ validKeys \subseteq validKeys'
           /\ IF s3Client # Nil
              THEN /\ last'.reqs = <<>>
                   /\ clientVars' = clientVars
                   /\ serverVars' = serverVars
              ELSE /\ last'.reqs = <<Req("POST s3-access-keys", 0)>>
                   /\ issuedKeys' = issuedKeys + 1
                   /\ validKeys' = validKeys \cup {issuedKeys'})]_vars

C16_Witness ==
    /\ last.op = "executeS3Operation"
    /\ last.firstErr = ErrS3Other
    /\ last.err = ErrS3Other
    /\ last.reqs = <<>>
    /\ s3Client # Nil
    /\ s3AccessKey \in validKeys

ReadHandled == last.op \in {"S3BucketResource.Read", "GroupResource.Read"}

\* the lookup of the last Read failed with the NotFound error: the bucket is
\* not in the bucket list, or the group request was answered with status 404
LookupNotFound ==
    \/ last.op = "S3BucketResource.Read" /\ last.err = ErrBucketNotFound
    \/ /\ last.op = "GroupResource.Read"
       /\ last.err.kind = "status"
       /\ last.err.status = 404

\* C15: the Read handlers of the bucket resource and of the group resource
\* remove the resource from state only when the lookup failed with the
\* NotFound error; any other failure of the lookup gives an error diagnostic
\* and leaves the resource in state.
C15_ReadRemovesOnlyOnNotFound ==
    ReadHandled =>
        /\ last.out.removed => LookupNotFound
        /\ (last.err # NoErr /\ ~LookupNotFound)
               => (last.out.diag = "error" /\ ~last.out.removed)

ExactlyOneSet(d) == (d.Days > 0) # (d.Years > 0)

\* C17: for every DefaultRetentionSetting with exactly one of Days > 0 and
\* Years > 0, MarshalJSON followed by UnmarshalJSON gives the same Mode and the
\* same value of the field that was set; and whenever Years > 0 the encoded
\* object has no days field.
C17_RetentionRoundTrip ==
    last.op = "DefaultRetentionSetting round trip" =>
        /\ ExactlyOneSet(last.in.d)
               => (/\ last.err = NoErr
                   /\ last.out.d.Mode = last.in.d.Mode
                   /\ last.in.d.Days > 0 => last.out.d.Days = last.in.d.Days
                   /\ last.in.d.Years > 0 => last.out.d.Years = last.in.d.Years)
        /\ last.in.d.Years > 0 => last.out.doc.days = Absent

C17_Witness ==
    /\ last.op = "DefaultRetentionSetting round trip"
    /\ last.in.d.Years = MaxDays
    /\ last.in.d.Days = 0 - 1
    /\ last.in.d0 # RetentionZero
    /\ last.out.d.Years = MaxDays
    /\ last.out.doc.days = Absent

\* the array w holds strings only
ArrayOfStrings(w) ==
    w.t = "array" /\ \A i \in 1..Len(w.items) : w.items[i].t = "string"

\* C18: decoding a StringOrSlice from a bare JSON string gives the one-element
\* sequence holding that string, decoding from a JSON array of N strings gives
\* the same N strings in the same order, and encoding any StringOrSlice value
\* emits a JSON array.
C18_StringOrSliceCodec ==
    /\ (last.op = "StringOrSlice.UnmarshalJSON" /\ last.in.w.t = "string")
           => (last.err = NoErr /\ last.out.v = Slice(<<last.in.w.s>>))
    /\ (last.op = "StringOrSlice.UnmarshalJSON" /\ ArrayOfStrings(last.in.w))
           => (/\ last.err = NoErr
               /\ ~last.out.v.nil
               /\ Len(last.out.v.items) = Len(last.in.w.items)
               /\ \A i \in 1..Len(last.in.w.items) :
                      last.out.v.items[i] = last.in.w.items[i].s)
    /\ last.op = "StringOrSlice marshal" => last.out.w.t = "array"
    /\ last.op = "Statement round trip" => last.out.ws.Action.t = "array"

\* two conditions have the same operators, under each the same keys, and
\* under each key the same list of values
SameCondition(c1, c2) ==
    /\ DOMAIN c1.m = DOMAIN c2.m
    /\ \A o \in DOMAIN c1.m :
          /\ DOMAIN c1.m[o].m = DOMAIN c2.m[o].m
          /\ \A k \in DOMAIN c1.m[o].m : c1.m[o].m[k].items = c2.m[o].m[k].items

\* the condition c holds what the wire form wc says, a bare string as a
\* one-element list
ConditionDecoded(wc, c) ==
    /\ DOMAIN c.m = DOMAIN wc.ops
    /\ \A o \in DOMAIN wc.ops :
          /\ DOMAIN c.m[o].m = DOMAIN wc.ops[o].keys
          /\ \A k \in DOMAIN wc.ops[o].keys :
                LET w == wc.ops[o].keys[k] IN
                /\ w.t = "string" => c.m[o].m[k].items = <<w.s>>
                /\ ArrayOfStrings(w) =>
                       c.m[o].m[k].items = [i \in 1..Len(w.items) |-> w.items[i].s]

\* C20: for every statement decoded from a policy document, marshal followed
\* by unmarshal gives a Condition with the same operators, keys and ordered
\* value lists, a bare string having become a one-element list; a statement
\* without Condition decodes to a nil Condition and is marshalled without a
\* Condition key.
C20_ConditionRoundTrip ==
    last.op = "Statement round trip" =>
        /\ last.err = NoErr
        /\ ConditionDecoded(last.in.ws.Condition, last.in.st.Condition)
        /\ SameCondition(last.in.st.Condition, last.out.st.Condition)
        /\ last.in.ws.Condition.t = "absent"
               => (/\ last.in.st.Condition = NilMap
                   /\ last.out.ws.Condition.t = "absent"
                   /\ last.out.st.Condition = NilMap)

C20_Witness ==
    /\ last.op = "Statement round trip"
    /\ "StringLike" \in DOMAIN last.in.ws.Condition.ops
    /\ ~last.in.ws.Condition.ops["StringLike"].null
    /\ DOMAIN last.in.ws.Condition.ops["StringLike"].keys = ConditionKeys
    /\ last.in.ws.Condition.ops["StringLike"].keys["s3:prefix"] = JStr("a")
    /\ last.in.ws.Condition.ops["StringLike"].keys["aws:username"]
           = JArr(<<JStr("b"), JStr("a")>>)
    /\ last.out.st.Condition.m["StringLike"].m["s3:prefix"].items = <<"a">>
    /\ last.out.st.Condition.m["StringLike"].m["aws:username"].items = <<"b", "a">>

\* every statement of p1 has a statement in p2 with the same effect, the same
\* actions and the same resources, whatever the order
CoveredBy(p1, p2) ==
    \A i \in 1..Len(p1.stmts) : \E j \in 1..Len(p2.stmts) :
        /\ p1.stmts[i].Effect = p2.stmts[j].Effect
        /\ WireStrings(p1.stmts[i].Action) = WireStrings(p2.stmts[j].Action)
        /\ WireStrings(p1.stmts[i].Resource) = WireStrings(p2.stmts[j].Resource)

\* the planned and the prior policy of the last PlanModifyString are known
\* documents that are semantically equivalent
EquivalentPolicies ==
    /\ last.in.plan.t = "known" /\ last.in.state.t = "known"
    /\ last.in.plan.v.valid /\ last.in.state.v.valid
    /\ CoveredBy(last.in.plan.v, last.in.state.v)
    /\ CoveredBy(last.in.state.v, last.in.plan.v)

\* C19: when the planned and the prior-state policy documents are
\* semantically equivalent the plan modifier sets the planned value to the
\* prior state value; when they are not, or the plan is null or unknown, or
\* the state is null, the planned value is left as it was.
C19_EquivalentPolicySuppressed ==
    last.op = "PlanModifyString" =>
        IF EquivalentPolicies
        THEN last.out.plan = last.in.state /\ last.out.diag = "none"
        ELSE last.out.plan = last.in.plan

C19_Witness ==
    /\ last.op = "PlanModifyString"
    /\ EquivalentPolicies
    /\ Len(last.in.plan.v.stmts) = 2
    /\ Len(last.in.state.v.stmts) = 2
    /\ last.in.plan.v.fields # last.in.state.v.fields
    /\ last.in.plan.v.stmts[1].Action = JStr("a")
    /\ last.in.state.v.stmts[2].Action = JArr(<<JStr("a")>>)
    /\ last.in.plan.v.stmts[2].Action = JArr(<<JStr("a"), JStr("b")>>)
    /\ last.in.state.v.stmts[1].Action = JArr(<<JStr("b"), JStr("a")>>)
    /\ last.out.plan = last.in.state

\* the wire values that carry the integer n: the JSON number and the JSON
\* string of its decimal notation
CarriesInteger(w, n) ==
    \/ w = JNum(n)
    \/ w.t = "string" /\ w.s \in DOMAIN AtoiTable /\ AtoiTable[w.s] = n

RequeryAnswered == last.checked /\ last.checkErr \in {NoErr, ErrBucketNotFound}

\* C22: when the existence check that DeleteS3Bucket makes after a timed-out
\* DELETE is answered and the server does not list the bucket at that time,
\* the check reports NotFound, whatever list the cache held before the DELETE.
C22_RequeryReflectsServer ==
    (DeleteTimedOut /\ RequeryAnswered /\ last.arg \notin serverBuckets) =>
        last.checkErr = ErrBucketNotFound

\* the age of the cached list: 5 minutes or more, or never fetched
CacheExpired == bucketCacheTime = ZeroTime \/ now - bucketCacheTime >= cacheTimeout

\* the list request of the lookup that ends in the next state was answered
\* and decoded
ListFetched == last'.reqs = <<GetList>> /\ last'.err \in {NoErr, ErrBucketNotFound}

\* the cache holds exactly the list the server returned and the time of the
\* fetch
CacheReplaced ==
    /\ bucketCache' \in {Slice(SeqOf(serverBuckets))}
                         \cup (IF serverBuckets = {} THEN {NilSlice} ELSE {})
    /\ bucketCacheTime' = now

PutWithRetention ==
    /\ last.op \in {"ObjectLock Create", "ObjectLock Update"}
    /\ last.out.puts # <<>>
    /\ last.out.puts[1].retention # <<>>

\* C24: every object-lock PUT that Create or Update sends with a default
\* retention setting carries exactly one of days and years: years, with the
\* planned value, when the planned years is greater than 0, otherwise days,
\* with the planned value.
C24_PutCarriesOneOfDaysYears ==
    PutWithRetention =>
        LET doc == last.out.puts[1].retention[1]
            plan == last.in.plan
        IN
        /\ (doc.days = Absent) # (doc.years = Absent)
        /\ plan.Years > 0 => doc.years = JNum(plan.Years)
        /\ plan.Years <= 0 => doc.days = JNum(plan.Days)
        /\ doc.mode = plan.Mode

C24_Witness ==
    /\ PutWithRetention
    /\ last.op = "ObjectLock Update"
    /\ last.in.plan.Years = 2
    /\ last.in.plan.Days = 3
    /\ last.out.puts[1].retention[1].years = JNum(2)
    /\ last.out.puts[1].retention[1].days = Absent

\* C29: when the default_retention_setting block gives days = D > 0 and
\* leaves years out, the object-lock PUT sent by Create and Update carries
\* days = D.
C29_DaysAloneAreSent ==
    (/\ PutWithRetention
     /\ last.in.block.days.set /\ last.in.block.days.v > 0
     /\ ~last.in.block.years.set)
        => last.out.puts[1].retention[1].days = JNum(last.in.block.days.v)

\* C25: in a sequential run of client operations every temporary access key
\* created on the management API and still valid there is the credential the
\* client has cached.
C25_CreatedKeysCachedOrRevoked ==
    validKeys \subseteq {s3AccessKey}

\* C26: in a sequential run in which buckets change only through this client,
\* a cached bucket list that has entries and is younger than 5 minutes equals
\* the server's bucket set, and a GetS3Bucket call that answers finds the
\* bucket exactly when the server has it.
C26_CacheMatchesServer ==
    /\ (CacheFresh(bucketCache, bucketCacheTime, now) /\ bucketCache.items # <<>>)
           => Range(bucketCache.items) = serverBuckets
    /\ (last.op = "GetS3Bucket" /\ last.err \in {NoErr, ErrBucketNotFound})
           => (last.found <=> last.arg \in serverBuckets)

\* no goroutine is inside a call
AllIdle == \A g \in Goroutines : goroutines[g].pc = "idle"

\* C27: when several goroutines call GetS3Client and executeS3Operation
\* concurrently on one client, a temporary access key is created only when no
\* earlier key is still valid (one key per fill of the cache), and once all
\* calls have returned every key valid on the server is the client's cached
\* credential.
C27_OneKeyPerFill ==
    /\ [][issuedKeys' > issuedKeys => validKeys = {}]_vars
    /\ [](AllIdle => validKeys \subseteq {s3AccessKey})

\* C28: a GetS3Bucket(b) call that starts after CreateS3Bucket(b) returned
\* success, and that answers, finds b, also when the bucket list of another
\* goroutine was in flight during the create.
C28_LookupAfterCreateFinds ==
    (/\ last.op = "GetS3Bucket by goroutine"
     /\ last.in.after
     /\ last.err \in {NoErr, ErrBucketNotFound})
        => last.found

\* C30: for every rule given to PutS3BucketLifecycleConfiguration with a
\* non-empty expiration date, every configuration sent to the S3 API carries
\* that date in the rule, or the call returns an error.
C30_ExpirationDateSentOrError ==
    last.op = "PutS3BucketLifecycleConfiguration" =>
        \/ last.err # NoErr
        \/ \A i \in 1..Len(last.in.rules) :
              LET e == last.in.rules[i].Expiration IN
              (e # <<>> /\ e[1].Date # "") =>
                  \A c \in 1..Len(last.out.sent) : last.out.sent[c][i].Date # <<>>

====
